---------------------------- MODULE Spec2Model ----------------------------
(***************************************************************************)
(* A model of the OctoLLM reflex layer (services/reflex-layer): the local  *)
(* token bucket, the Redis-backed rate limiter and its multi-dimensional   *)
(* composition, and the process_text request pipeline.                     *)
(*                                                                         *)
(* Token amounts are integers: one unit is the smallest amount a caller    *)
(* asks for.  Time is an integer count of seconds.                         *)
(***************************************************************************)
EXTENDS Integers, Sequences, FiniteSets, TLC

VARIABLES
    \* ---- TokenBucket (ratelimit/token_bucket.rs) ----
    tokens,        \* TokenBucketState.tokens
    last_refill,   \* TokenBucketState.last_refill
    now,           \* the monotonic clock read by Instant::now()
    lock,          \* the thread inside the Mutex, 0 when it is free
    pc,            \* per thread: position inside the method it is running
    op,            \* per thread: the method it is running
    arg,           \* per thread: the `tokens` argument of try_consume
    result,        \* per thread: what its last call returned
    seq_tokens,    \* the bucket level of the sequential reference run
    seq_last,      \* last_refill of the sequential reference run
    expect,        \* per thread: what the sequential reference run returns
    burst,         \* the try_consume(1) results since the bucket was last full
    \* ---- RedisRateLimiter / MultiDimensionalRateLimiter (ratelimit/redis_limiter.rs) ----
    buckets,       \* the key-value store: bucket state under each rate-limit key
    wall,          \* SystemTime::now(), in seconds
    m_pc,          \* check_all: the dimension it is about to consult
    m_user,        \* check_all: whether a user_id was given
    m_trace,       \* check_all: the buckets consulted so far, with their outcomes
    m_result,      \* check_all: what it returned
    \* ---- process_text (handlers.rs) and the response cache (cache/redis_cache.rs) ----
    cache,         \* the key-value store: the entry under each cache key
    p_pc,          \* process_text: the step the request in flight is about to take
    request,       \* process_text: the ProcessRequest it was called with
    cache_key,     \* process_text: the local cache_key
    cache_hit,     \* process_text: the local cache_hit
    response,      \* process_text: the ProcessResponse built after detection
    p_reply,       \* the HTTP response process_text ended with
    p_trace,       \* the steps the request has performed, in order, with their outcomes
    p_seen,        \* the cache entry that was under cache_key when the lookup ran
    \* ---- RedisCache and CacheStats (cache/redis_cache.rs, cache/types.rs) ----
    stats,         \* CacheStats: the five AtomicU64 counters
    calls,         \* per counter: the record_* calls since it was last stored 0
    kv,            \* the key-value store: which keys are present
    c_pc,          \* the cache operation in flight: its position
    c_op,          \* the cache operation in flight: its name and argument
    c_keys,        \* invalidate_pattern: the local `keys`
    c_left,        \* invalidate_pattern: record_delete calls its loop has still to make
    c_reply,       \* what the store answered to the last command
    c_result,      \* what the cache operation returned
    c_before,      \* the keys present when the operation was called
    c_removed,     \* the keys the operation has removed from the store
    \* ---- RedisClient::get_connection (redis_client.rs) ----
    g_pc,          \* per caller: position inside get_connection
    retry_count,   \* per caller: the local retry_count
    backoff_ms,    \* per caller: the local backoff_ms
    g_attempts,    \* per caller: pool.get() calls made
    g_waited,      \* per caller: the sleeps made, in milliseconds
    g_result,      \* per caller: what get_connection returned
    \* ---- generate_cache_key, generate_cache_key_fast (cache/key.rs) ----
    k_namespace,   \* the namespace argument
    k_data,        \* the data argument
    k_strong,      \* what generate_cache_key returned for them
    k_fast,        \* what generate_cache_key_fast returned for them
    \* ---- InjectionDetector::detect (injection/detector.rs) ----
    j_text,        \* the text detect is called with
    j_config,      \* the InjectionConfig of the detector
    j_matches,     \* what detect returned
    \* ---- PIIDetector::detect (pii/detector.rs) ----
    i_text,        \* the text detect is called with
    i_config,      \* the PIIConfig of the detector
    i_matches,     \* what detect returned
    \* ---- redact (pii/redactor.rs) ----
    r_text,        \* the text argument
    r_matches,     \* the matches argument
    r_strategy,    \* the strategy argument
    r_result,      \* what redact returned, or that it panicked
    \* ---- TokenBucket: a denied try_consume and its retry (ratelimit/token_bucket.rs) ----
    y_pc,          \* the retrying caller: its next step
    y_tokens,      \* TokenBucketState.tokens, in thousandths of a token
    y_last,        \* TokenBucketState.last_refill, in milliseconds
    y_now,         \* the monotonic clock, in milliseconds
    y_n,           \* the tokens argument of both calls, in thousandths
    y_first,       \* what the first try_consume returned
    y_second,      \* what the try_consume after the wait returned
    \* ---- CacheStats::snapshot beside record_hit and record_miss (cache/types.rs) ----
    n_pc,          \* snapshot: the load it performs next
    n_stats,       \* the atomic counters of the CacheStats
    n_snap,        \* the CacheStatsSnapshot fields evaluated so far
    n_hits,        \* the hits value the running hit_rate call has loaded
    \* ---- process_text: what its rate-limit step charges (handlers.rs) ----
    q_pc,          \* the request in flight: the check it makes next
    q_user_id,     \* whether the request in flight carries a user_id
    q_ip,          \* the bucket under RateLimitKey::IP of the client
    q_user,        \* the bucket under RateLimitKey::User of the client
    q_out,         \* how the rate-limit step of the request in flight ended
    q_took,        \* tokens the request in flight has taken, per bucket
    q_count        \* since the start: requests that reached the limiter, their IP verdicts, tokens taken from the IP bucket

bucketVars == <<tokens, last_refill, now, lock, pc, op, arg, result,
                seq_tokens, seq_last, expect, burst>>

multiVars == <<m_pc, m_user, m_trace, m_result>>
storeVars == <<buckets, wall>>

pipeVars == <<cache, p_pc, request, cache_key, cache_hit, response, p_reply,
              p_trace, p_seen>>

statVars == <<stats, calls, kv, c_pc, c_op, c_keys, c_left, c_reply, c_result,
              c_before, c_removed>>

connVars == <<g_pc, retry_count, backoff_ms, g_attempts, g_waited, g_result>>

keyVars == <<k_namespace, k_data, k_strong, k_fast>>

injVars == <<j_text, j_config, j_matches>>

piiVars == <<i_text, i_config, i_matches>>

redVars == <<r_text, r_matches, r_strategy, r_result>>

retryVars == <<y_pc, y_tokens, y_last, y_now, y_n, y_first, y_second>>

snapVars == <<n_pc, n_stats, n_snap, n_hits>>

chargeVars == <<q_pc, q_user_id, q_ip, q_user, q_out, q_took, q_count>>

vars == <<bucketVars, storeVars, multiVars, pipeVars, statVars, connVars, keyVars,
          injVars, piiVars, redVars, retryVars, snapVars, chargeVars>>

\* what the token bucket actions leave alone
notBucket == <<storeVars, multiVars, pipeVars, statVars, connVars, keyVars, injVars,
               piiVars, redVars, retryVars, snapVars, chargeVars>>
\* what the check_all actions leave alone
notMulti == <<bucketVars, pipeVars, statVars, connVars, keyVars, injVars, piiVars,
              redVars, retryVars, snapVars, chargeVars>>
\* what the process_text actions leave alone
notPipe == <<bucketVars, storeVars, multiVars, statVars, connVars, keyVars, injVars,
             piiVars, redVars, retryVars, snapVars, chargeVars>>
\* what the cache operations leave alone
notStat == <<bucketVars, storeVars, multiVars, pipeVars, connVars, keyVars, injVars,
             piiVars, redVars, retryVars, snapVars, chargeVars>>
\* what get_connection leaves alone
notConn == <<bucketVars, storeVars, multiVars, pipeVars, statVars, keyVars, injVars,
             piiVars, redVars, retryVars, snapVars, chargeVars>>
\* what the key functions leave alone
notKey == <<bucketVars, storeVars, multiVars, pipeVars, statVars, connVars, injVars,
            piiVars, redVars, retryVars, snapVars, chargeVars>>
\* what the injection detector leaves alone
notInj == <<bucketVars, storeVars, multiVars, pipeVars, statVars, connVars, keyVars,
            piiVars, redVars, retryVars, snapVars, chargeVars>>
\* what the PII detector leaves alone
notPII == <<bucketVars, storeVars, multiVars, pipeVars, statVars, connVars, keyVars,
            injVars, redVars, retryVars, snapVars, chargeVars>>
\* what redact leaves alone
notRed == <<bucketVars, storeVars, multiVars, pipeVars, statVars, connVars, keyVars,
            injVars, piiVars, retryVars, snapVars, chargeVars>>
\* what the retrying caller leaves alone
notRetry == <<bucketVars, storeVars, multiVars, pipeVars, statVars, connVars, keyVars,
              injVars, piiVars, redVars, snapVars, chargeVars>>
\* what snapshot leaves alone
notSnap == <<bucketVars, storeVars, multiVars, pipeVars, statVars, connVars, keyVars,
             injVars, piiVars, redVars, retryVars, chargeVars>>
\* what the rate-limit step of process_text leaves alone
notCharge == <<bucketVars, storeVars, multiVars, pipeVars, statVars, connVars, keyVars,
               injVars, piiVars, redVars, retryVars, snapVars>>

Min(a, b) == IF a <= b THEN a ELSE b
Max(a, b) == IF a >= b THEN a ELSE b

(***************************************************************************)
(* Bounds of the token bucket model.                                       *)
(***************************************************************************)
Capacity   == 3     \* config.capacity
RefillRate == 1     \* config.refill_rate, units per second
MaxTime    == 2     \* the clock stops advancing here
NumThreads == 2     \* threads sharing one bucket
MaxConsume == 2     \* try_consume is called with 0..MaxConsume

Threads == 1..NumThreads
NoResult == [kind |-> "None"]

Milli == 1000            \* milliseconds per second, thousandths per token
RetryBufferMs == 100     \* the buffer calculate_retry_time adds

(***************************************************************************)
(* TokenBucket: pure helpers.                                              *)
(***************************************************************************)

\* refill without the cap at capacity
RefillUncapped(tok, last, t) == tok + (t - last) * RefillRate

\* refill(): state.tokens after the lazy refill at time t
RefillLevel(tok, last, t) == Min(tok + (t - last) * RefillRate, Capacity)

\* calculate_reset_time
calculate_reset_time(current) ==
    IF current >= Capacity THEN 0
    ELSE ((Capacity - current) * 1000) \div RefillRate

\* a hint of half the time the refill takes, without the buffer
RetryTimeHalf(deficit) == deficit \div (2 * RefillRate)

\* calculate_retry_time for a deficit given in thousandths of a token:
\* ((tokens_deficit / refill_rate * 1000.0) + 100.0) as u64
RetryTimeMs(deficit) == deficit \div RefillRate + RetryBufferMs

\* calculate_retry_time
calculate_retry_time(current, needed) == RetryTimeMs((needed - current) * Milli)

\* the comparison of try_consume with > in place of >=
EnoughStrict(tok, n) == tok > n

\* try_consume: `state.tokens >= tokens`
Enough(tok, n) == tok >= n

Allowed(remaining) ==
    [kind |-> "Allowed", remaining |-> remaining,
     reset_after_ms |-> calculate_reset_time(remaining)]

\* a denial that reports the level the request would have left
LimitedCharged(current, n) ==
    [kind |-> "Limited", reason |-> "Custom",
     retry_after_ms |-> calculate_retry_time(current, n),
     current_tokens |-> Max(current - n, 0)]

Limited(current, n) ==
    [kind |-> "Limited", reason |-> "Custom",
     retry_after_ms |-> calculate_retry_time(current, n),
     current_tokens |-> current]

\* try_consume run as one uninterrupted call at time t on level tok
SeqTryConsume(tok, last, t, n) ==
    LET lvl == RefillLevel(tok, last, t)
    IN  IF Enough(lvl, n)
        THEN [tokens |-> lvl - n, result |-> Allowed(lvl - n)]
        ELSE [tokens |-> lvl, result |-> Limited(lvl, n)]

(***************************************************************************)
(* TokenBucket: the state after TokenBucket::new.                          *)
(***************************************************************************)
BucketStart ==
    /\ tokens = Capacity
    /\ last_refill = 0
    /\ now = 0
    /\ lock = 0
    /\ pc = [t \in Threads |-> "idle"]
    /\ op = [t \in Threads |-> "none"]
    /\ arg = [t \in Threads |-> 0]
    /\ result = [t \in Threads |-> NoResult]
    /\ seq_tokens = Capacity
    /\ seq_last = 0
    /\ expect = [t \in Threads |-> NoResult]
    /\ burst = [valid |-> TRUE, log |-> <<>>]

\* a Mutex that lets every caller in
LockNever == TRUE

\* self.state.lock(): the Mutex is free
LockFree == lock = 0

\* the burst log is followed while it records try_consume(1) calls only,
\* with no time elapsing; it stops after Capacity + 2 entries
BurstAfter(t, r) ==
    IF burst.valid /\ op[t] = "try_consume" /\ arg[t] = 1
       /\ Len(burst.log) < Capacity + 2
    THEN [valid |-> TRUE, log |-> Append(burst.log, r)]
    ELSE [valid |-> FALSE, log |-> <<>>]

\* A thread calls try_consume(n), current_tokens() or reset() and takes the lock.
Call(t) ==
    /\ pc[t] = "idle"
    /\ LockFree
    /\ \E o \in {"try_consume", "current_tokens", "reset"} :
         \E n \in 0..MaxConsume :
            /\ (o # "try_consume" => n = 0)
            /\ op' = [op EXCEPT ![t] = o]
            /\ arg' = [arg EXCEPT ![t] = n]
            /\ pc' = [pc EXCEPT ![t] = IF o = "reset" THEN "reset" ELSE "refill"]
    /\ lock' = t
    /\ result' = [result EXCEPT ![t] = NoResult]
    /\ expect' = [expect EXCEPT ![t] = NoResult]
    /\ UNCHANGED <<tokens, last_refill, now, seq_tokens, seq_last, burst>>
    /\ UNCHANGED notBucket

\* refill(): reads the clock, adds elapsed * refill_rate, caps at capacity.
\* current_tokens() returns here.
Refill(t) ==
    /\ pc[t] = "refill"
    /\ tokens' = RefillLevel(tokens, last_refill, now)
    /\ last_refill' = now
    /\ LET s == SeqTryConsume(seq_tokens, seq_last, now, arg[t])
           lvl == RefillLevel(seq_tokens, seq_last, now)
       IN  /\ seq_last' = now
           /\ IF op[t] = "current_tokens"
              THEN /\ seq_tokens' = lvl
                   /\ expect' = [expect EXCEPT ![t] = [kind |-> "Tokens", value |-> lvl]]
                   /\ result' = [result EXCEPT ![t] =
                                   [kind |-> "Tokens", value |-> tokens']]
                   /\ pc' = [pc EXCEPT ![t] = "idle"]
                   /\ lock' = 0
                   /\ burst' = [valid |-> FALSE, log |-> <<>>]
              ELSE /\ seq_tokens' = s.tokens
                   /\ expect' = [expect EXCEPT ![t] = s.result]
                   /\ pc' = [pc EXCEPT ![t] = "check"]
                   /\ UNCHANGED <<result, lock, burst>>
    /\ UNCHANGED <<now, op, arg>>
    /\ UNCHANGED notBucket

\* try_consume: the comparison; the Limited branch returns here.
Check(t) ==
    /\ pc[t] = "check"
    /\ IF Enough(tokens, arg[t])
       THEN /\ pc' = [pc EXCEPT ![t] = "sub"]
            /\ UNCHANGED <<result, lock, burst>>
       ELSE /\ result' = [result EXCEPT ![t] = Limited(tokens, arg[t])]
            /\ burst' = BurstAfter(t, Limited(tokens, arg[t]))
            /\ pc' = [pc EXCEPT ![t] = "idle"]
            /\ lock' = 0
    /\ UNCHANGED <<tokens, last_refill, now, op, arg, seq_tokens, seq_last, expect>>
    /\ UNCHANGED notBucket

\* try_consume: the Allowed branch subtracts and returns.
Subtract(t) ==
    /\ pc[t] = "sub"
    /\ tokens' = tokens - arg[t]
    /\ result' = [result EXCEPT ![t] = Allowed(tokens')]
    /\ burst' = BurstAfter(t, Allowed(tokens'))
    /\ pc' = [pc EXCEPT ![t] = "idle"]
    /\ lock' = 0
    /\ UNCHANGED <<last_refill, now, op, arg, seq_tokens, seq_last, expect>>
    /\ UNCHANGED notBucket

\* reset(): back to full capacity.
Reset(t) ==
    /\ pc[t] = "reset"
    /\ tokens' = Capacity
    /\ last_refill' = now
    /\ seq_tokens' = Capacity
    /\ seq_last' = now
    /\ result' = [result EXCEPT ![t] = [kind |-> "Unit"]]
    /\ expect' = [expect EXCEPT ![t] = [kind |-> "Unit"]]
    /\ burst' = [valid |-> TRUE, log |-> <<>>]
    /\ pc' = [pc EXCEPT ![t] = "idle"]
    /\ lock' = 0
    /\ UNCHANGED <<now, op, arg>>
    /\ UNCHANGED notBucket

\* One second passes.
Tick ==
    /\ now < MaxTime
    /\ now' = now + 1
    /\ burst' = [valid |-> FALSE, log |-> <<>>]
    /\ UNCHANGED <<tokens, last_refill, lock, pc, op, arg, result,
                   seq_tokens, seq_last, expect>>
    /\ UNCHANGED notBucket

(***************************************************************************)
(* RedisRateLimiter: one bucket per key in the key-value store, updated by *)
(* an atomic script.  A bucket level is kept in units of 1/den token,      *)
(* where the refill rate is num/den tokens per second, so that the refill  *)
(* arithmetic is exact.                                                    *)
(***************************************************************************)
DimCapacity == 1    \* capacity of each check_all dimension
DimRefill   == 1    \* refill rate of each check_all dimension, tokens per second
MaxWall     == 1    \* the wall clock stops advancing here

Dims == {"user", "ip", "endpoint", "global"}

Absent == [exists |-> FALSE, tokens |-> 0, last |-> 0]

DimConfig == [capacity |-> DimCapacity, num |-> DimRefill, den |-> 1]

CeilDiv(a, b) == (a + b - 1) \div b

\* the token bucket script: refill, compare, subtract, store, reply
\* <<allowed, tokens, time_ms>>
ScriptRun(b, cfg, n, t) ==
    LET cap == cfg.capacity * cfg.den
        st  == IF b.exists THEN b ELSE [exists |-> TRUE, tokens |-> cap, last |-> t]
        elapsed == Max(0, t - st.last)
        lvl == Min(cap, st.tokens + elapsed * cfg.num)
        need == n * cfg.den
    IN  IF lvl >= need
        THEN [bucket |-> [exists |-> TRUE, tokens |-> lvl - need, last |-> t],
              reply |-> <<1, (lvl - need) \div cfg.den,
                          CeilDiv(cap - (lvl - need), cfg.num) * 1000>>]
        ELSE [bucket |-> [exists |-> TRUE, tokens |-> lvl, last |-> t],
              reply |-> <<0, lvl \div cfg.den,
                          CeilDiv(need - lvl, cfg.num) * 1000 + 100>>]

\* check_rate_limit: parsing the script's reply
ParseReply(reply) ==
    IF reply[1] = 1
    THEN [kind |-> "Allowed", remaining |-> reply[2], reset_after_ms |-> reply[3]]
    ELSE [kind |-> "Limited", reason |-> "Custom", retry_after_ms |-> reply[3],
          current_tokens |-> reply[2]]

\* check_rate_limit: every way one call can end.  No connection: the script
\* is never sent.  A failed script call: the script ran or did not, and no
\* reply arrived.  Otherwise the reply is parsed.
CheckRateLimit(b, cfg, n, t) ==
    LET r == ScriptRun(b, cfg, n, t)
    IN  { [bucket |-> b, res |-> [kind |-> "Err", error |-> "Reflex"]],
          [bucket |-> b, res |-> [kind |-> "Err", error |-> "ScriptError"]],
          [bucket |-> r.bucket, res |-> [kind |-> "Err", error |-> "ScriptError"]],
          [bucket |-> r.bucket, res |-> ParseReply(r.reply)] }

StoreStart ==
    /\ buckets = [d \in Dims |-> Absent]
    /\ wall = 0

\* Another client of the same store calls check_rate_limit on a shared key.
ExternalCheck(d) ==
    /\ \E o \in CheckRateLimit(buckets[d], DimConfig, 1, wall) :
          /\ o.bucket # buckets[d]
          /\ buckets' = [buckets EXCEPT ![d] = o.bucket]
    /\ UNCHANGED <<wall, multiVars>>
    /\ UNCHANGED notMulti

\* One second of wall-clock time passes.
TickWall ==
    /\ wall < MaxWall
    /\ wall' = wall + 1
    /\ UNCHANGED <<buckets, multiVars>>
    /\ UNCHANGED notMulti

(***************************************************************************)
(* MultiDimensionalRateLimiter::check_all.  Each check_rate_limit is an    *)
(* await point: one action per dimension.                                  *)
(***************************************************************************)
MultiStart ==
    /\ m_pc = "idle"
    /\ m_user = FALSE
    /\ m_trace = <<>>
    /\ m_result = NoResult

\* the reasons with user and ip exchanged
ReasonSwapped(d) ==
    CASE d = "user" -> "IPQuota"
      [] d = "ip" -> "UserQuota"
      [] d = "endpoint" -> "EndpointQuota"
      [] d = "global" -> "GlobalQuota"

\* the reason check_all writes into the Limited result of dimension d
ReasonOf(d) ==
    CASE d = "user" -> "UserQuota"
      [] d = "ip" -> "IPQuota"
      [] d = "endpoint" -> "EndpointQuota"
      [] d = "global" -> "GlobalQuota"

\* the dimension check_all consults after d was allowed
NextDim(d) ==
    CASE d = "user" -> "ip"
      [] d = "ip" -> "endpoint"
      [] d = "endpoint" -> "global"
      [] d = "global" -> "done"

\* check_all is called, with or without a user_id.
CheckAllCall ==
    /\ m_pc \in {"idle", "done"}
    /\ \E u \in BOOLEAN :
          /\ m_user' = u
          /\ m_pc' = IF u THEN "user" ELSE "ip"
    /\ m_trace' = <<>>
    /\ m_result' = NoResult
    /\ UNCHANGED storeVars
    /\ UNCHANGED notMulti

\* check_all consults the bucket of dimension d.
CheckDim(d) ==
    /\ m_pc = d
    /\ \E o \in CheckRateLimit(buckets[d], DimConfig, 1, wall) :
          /\ buckets' = [buckets EXCEPT ![d] = o.bucket]
          /\ m_trace' = Append(m_trace, [dim |-> d, kind |-> o.res.kind])
          /\ CASE o.res.kind = "Err" ->
                    /\ m_result' = o.res
                    /\ m_pc' = "done"
               [] o.res.kind = "Limited" ->
                    /\ m_result' = [o.res EXCEPT !.reason = ReasonOf(d)]
                    /\ m_pc' = "done"
               [] o.res.kind = "Allowed" ->
                    /\ m_pc' = NextDim(d)
                    /\ m_result' = IF d = "global"
                                   THEN [kind |-> "Allowed", remaining |-> 0,
                                         reset_after_ms |-> 0]
                                   ELSE m_result
    /\ UNCHANGED <<wall, m_user>>
    /\ UNCHANGED notMulti

NextMulti ==
    \/ CheckAllCall
    \/ \E d \in Dims : CheckDim(d)
    \/ \E d \in Dims : ExternalCheck(d)
    \/ TickWall

(***************************************************************************)
(* process_text (handlers.rs), the detectors it calls and the response     *)
(* cache it reads and writes.                                              *)
(*                                                                         *)
(* A text is a sequence of tokens, each standing for a stretch of at most  *)
(* 50 bytes that the patterns treat as a unit, and a length in bytes:      *)
(*   "i", "I"  a phrase IGNORE_PREVIOUS matches, in lower and upper case   *)
(*   "h", "H"  a phrase DIRECT_PROMPT_EXTRACTION matches                   *)
(*   "e"       an e-mail address that passes validate_email                *)
(*   "a" "t" "n"  a word of ACADEMIC_, TESTING_, NEGATION_PATTERN          *)
(*   "q"       a quotation mark                                            *)
(*   " "       white space                                                 *)
(*   "x"       any other word                                              *)
(* Offsets count tokens.  request_id and processing_time_ms, which differ  *)
(* in every response, are left out of ProcessResponse.                     *)
(***************************************************************************)
MaxTextLen == 100000

TextOf(cs) == [chars |-> cs, len |-> Len(cs), high_entropy |-> FALSE]
LongText == [chars |-> <<"x">>, len |-> MaxTextLen + 1, high_entropy |-> FALSE]

\* the texts requests are made with
Texts == { TextOf(<<>>), LongText, TextOf(<<" ">>), TextOf(<<"h">>),
           TextOf(<<"i", "e">>), TextOf(<<" ", "I", "e">>) }

to_lowercase(c) == CASE c = "I" -> "i" [] c = "H" -> "h" [] OTHER -> c

RECURSIVE trim_start(_)
trim_start(cs) ==
    IF cs # <<>> /\ Head(cs) = " " THEN trim_start(Tail(cs)) ELSE cs

RECURSIVE trim_end(_)
trim_end(cs) ==
    IF cs # <<>> /\ cs[Len(cs)] = " "
    THEN trim_end(SubSeq(cs, 1, Len(cs) - 1))
    ELSE cs

trim(cs) == trim_end(trim_start(cs))

RECURSIVE Lowercase(_)
Lowercase(cs) ==
    IF cs = <<>> THEN <<>> ELSE <<to_lowercase(Head(cs))>> \o Lowercase(Tail(cs))

NoKey == [ok |-> FALSE, key |-> <<>>]

\* the key of the data as it came, neither trimmed nor lowercased
generate_cache_key_raw(namespace, text) ==
    IF text.len = 0 THEN NoKey
    ELSE IF namespace = "" THEN NoKey
    ELSE IF trim(text.chars) = <<>> THEN NoKey
    ELSE [ok |-> TRUE, key |-> <<namespace, text.chars>>]

\* cache/key.rs generate_cache_key; the SHA-256 digest of the normalized
\* data is represented by the normalized data itself
generate_cache_key(namespace, text) ==
    IF text.len = 0 THEN NoKey
    ELSE IF namespace = "" THEN NoKey
    ELSE LET normalized == Lowercase(trim(text.chars))
         IN  IF normalized = <<>> THEN NoKey
             ELSE [ok |-> TRUE, key |-> <<namespace, normalized>>]

Namespace == "reflex:process"

\* ---- injection/analyzer.rs ----
Count(cs, c) == Cardinality({i \in 1..Len(cs) : cs[i] = c})

analyze_context(text) ==
    [is_academic |-> Count(text.chars, "a") > 0,
     is_testing  |-> Count(text.chars, "t") > 0,
     is_quoted   |-> Count(text.chars, "q") >= 2,
     is_negation |-> Count(text.chars, "n") > 0]

has_benign_context(ctx) ==
    ctx.is_academic \/ ctx.is_testing \/ ctx.is_quoted \/ ctx.is_negation

\* the adjustment that ignores quotes and negations
adjust_severity_academic(severity, ctx) ==
    IF ctx.is_academic \/ ctx.is_testing
    THEN CASE severity = "Critical" -> "High"
           [] severity = "High" -> "Medium"
           [] severity = "Medium" -> "Low"
           [] OTHER -> "Low"
    ELSE severity

\* injection/analyzer.rs adjust_severity
adjust_severity(severity, ctx) ==
    LET first == IF ctx.is_academic \/ ctx.is_testing
                 THEN CASE severity = "Critical" -> "High"
                        [] severity = "High" -> "Medium"
                        [] severity = "Medium" -> "Low"
                        [] OTHER -> "Low"
                 ELSE severity
    IN  IF ctx.is_quoted \/ ctx.is_negation
        THEN CASE first = "Critical" -> "Medium"
               [] first = "High" -> "Low"
               [] OTHER -> first
        ELSE first

\* the derived Ord of Severity
SeverityRank(s) ==
    CASE s = "Low" -> 1 [] s = "Medium" -> 2 [] s = "High" -> 3 [] s = "Critical" -> 4

\* ---- injection/detector.rs ----
\* injection/patterns.rs get_patterns, restricted to the patterns the tokens
\* can match: Strict has the Critical patterns, Standard the High ones too,
\* Relaxed the Medium ones as well
get_patterns(mode) ==
    LET critical == << [injection_type |-> "IgnorePreviousInstructions",
                        chars |-> {"i", "I"}, severity |-> "Critical"] >>
        high == << [injection_type |-> "DirectPromptExtraction",
                    chars |-> {"h", "H"}, severity |-> "High"] >>
        medium == << [injection_type |-> "RolePlayingJailbreak",
                      chars |-> {"r"}, severity |-> "Medium"] >>
    IN  CASE mode = "Strict" -> critical
          [] mode = "Standard" -> critical \o high
          [] mode = "Relaxed" -> critical \o high \o medium

\* the patterns of the detector main.rs builds
InjectionPatterns == get_patterns("Standard")

\* InjectionConfig.severity_threshold as main.rs sets it
SeverityThreshold == "Low"

\* the InjectionConfig main.rs builds
MainInjectionConfig ==
    [detection_mode |-> "Standard", enable_context_analysis |-> TRUE,
     enable_entropy_check |-> TRUE, severity_threshold |-> SeverityThreshold]

\* ContextAnalysis::default()
NoContext ==
    [is_academic |-> FALSE, is_testing |-> FALSE, is_quoted |-> FALSE,
     is_negation |-> FALSE]

\* Regex::find_iter: the positions of the text where the pattern matches
RECURSIVE FindIter(_, _, _)
FindIter(cs, set, i) ==
    IF i > Len(cs) THEN <<>>
    ELSE (IF cs[i] \in set THEN <<i>> ELSE <<>>) \o FindIter(cs, set, i + 1)

extract_indicators(matched) ==
    LET lower == Lowercase(matched)
    IN  IF lower = <<"i">> THEN <<"ignore", "instructions">>
        ELSE IF lower = <<"h">> THEN <<"prompt">>
        ELSE <<>>

\* calculate_entropy(text) > 4.5 when the entropy check is on; entropy is 0.0
\* when it is off
EntropyHigh(config, text) == config.enable_entropy_check /\ text.high_entropy

\* calculate_confidence, in hundredths
InjectionConfidence(injection_type, high_entropy, ctx) ==
    LET base == 80 - (IF has_benign_context(ctx) THEN 30 ELSE 0)
                   + (IF high_entropy THEN 10 ELSE 0)
                   + (IF injection_type \in {"DANVariant", "IgnorePreviousInstructions",
                                             "SystemRoleManipulation"}
                      THEN 10 ELSE 0)
    IN  Max(0, Min(100, base))

\* a hit is pushed whatever its adjusted severity
BelowThresholdNever(adjusted, threshold) == FALSE

\* `adjusted_severity < self.config.severity_threshold`
BelowThreshold(adjusted, threshold) == SeverityRank(adjusted) < SeverityRank(threshold)

RECURSIVE InjectionHits(_, _, _, _, _)
InjectionHits(config, text, p, ctx, pos) ==
    IF pos = <<>> THEN <<>>
    ELSE LET i == Head(pos)
             adjusted == adjust_severity(p.severity, ctx)
             rest == InjectionHits(config, text, p, ctx, Tail(pos))
         IN  IF BelowThreshold(adjusted, config.severity_threshold)
             THEN rest
             ELSE << [injection_type |-> p.injection_type,
                      start |-> i - 1, end |-> i,
                      matched_text |-> SubSeq(text.chars, i, i),
                      severity |-> adjusted,
                      confidence |-> InjectionConfidence(p.injection_type,
                                                         EntropyHigh(config, text), ctx),
                      indicators |-> extract_indicators(SubSeq(text.chars, i, i))] >>
                  \o rest

RECURSIVE RunPatterns(_, _, _, _)
RunPatterns(config, text, ps, ctx) ==
    IF ps = <<>> THEN <<>>
    ELSE InjectionHits(config, text, Head(ps), ctx,
                       FindIter(text.chars, Head(ps).chars, 1))
         \o RunPatterns(config, text, Tail(ps), ctx)

RECURSIVE boost_confidence_for_multiple_matches(_, _)
boost_confidence_for_multiple_matches(ms, boost) ==
    IF ms = <<>> THEN <<>>
    ELSE << [Head(ms) EXCEPT !.confidence = Min(@ + boost, 100)] >>
         \o boost_confidence_for_multiple_matches(Tail(ms), boost)

\* the order detect sorts by: severity, highest first, then confidence
SortsBefore(a, b) ==
    \/ SeverityRank(a.severity) > SeverityRank(b.severity)
    \/ /\ a.severity = b.severity
       /\ a.confidence > b.confidence

\* a stable sort: m goes in front of the first element it sorts before
RECURSIVE InsertMatch(_, _)
InsertMatch(m, sorted) ==
    IF sorted = <<>> THEN <<m>>
    ELSE IF SortsBefore(m, Head(sorted)) THEN <<m>> \o sorted
    ELSE <<Head(sorted)>> \o InsertMatch(m, Tail(sorted))

RECURSIVE SortMatches(_, _)
SortMatches(ms, sorted) ==
    IF ms = <<>> THEN sorted
    ELSE SortMatches(Tail(ms), InsertMatch(Head(ms), sorted))

\* InjectionDetector::detect of a detector built with `config`
detect(config, text) ==
    LET ctx == IF config.enable_context_analysis THEN analyze_context(text) ELSE NoContext
        found == RunPatterns(config, text, get_patterns(config.detection_mode), ctx)
        boosted == IF Len(found) > 1
                   THEN boost_confidence_for_multiple_matches(found, Min(Len(found) * 5, 15))
                   ELSE found
    IN  SortMatches(boosted, <<>>)

\* detect of the detector main.rs builds
InjectionDetect(text) == detect(MainInjectionConfig, text)

\* ---- pii/detector.rs ----
\* pii/patterns.rs get_patterns with requires_validation from
\* get_pattern_metadata, restricted to the patterns the tokens can match.
\* `chars` are the tokens the regex matches, `valid` those of them that pass
\* the validator of the type: "s" is a well-formed SSN and "z" one with area
\* 000, "c" a card number with a good and "d" one with a bad Luhn checksum,
\* "e" an address like bob@corp.io and "f" one like bob@corp..io, "p" a phone
\* number and "o" one with area code 123.
pii_get_patterns(pattern_set) ==
    LET ssn == [pii_type |-> "SSN", chars |-> {"s", "z"}, valid |-> {"s"},
                requires_validation |-> TRUE]
        card == [pii_type |-> "CreditCard", chars |-> {"c", "d"}, valid |-> {"c"},
                 requires_validation |-> TRUE]
        email == [pii_type |-> "Email", chars |-> {"e", "f"}, valid |-> {"e"},
                  requires_validation |-> FALSE]
        phone == [pii_type |-> "Phone", chars |-> {"p", "o"}, valid |-> {"p"},
                  requires_validation |-> FALSE]
    IN  IF pattern_set = "Strict" THEN <<ssn, card>> ELSE <<ssn, card, email, phone>>

\* the patterns of the detector main.rs builds
PIIPatterns == pii_get_patterns("Standard")

\* the PIIConfig main.rs builds
MainPIIConfig ==
    [pattern_set |-> "Standard", enable_validation |-> TRUE, enable_context |-> FALSE]

\* PIIDetector::validate: validate_luhn, validate_ssn, validate_email, validate_phone
validate(p, matched) == matched \in p.valid

\* calculate_confidence, in hundredths
PIIConfidence(config, p, matched) ==
    IF config.enable_validation
    THEN IF p.requires_validation /\ validate(p, matched) THEN 100
         ELSE IF p.requires_validation THEN 70
         ELSE 90
    ELSE 80

\* `meta.requires_validation && !self.validate(pii_type, &matched_text)` under
\* `if self.config.enable_validation`
Skips(config, p, matched) ==
    config.enable_validation /\ p.requires_validation /\ ~validate(p, matched)

RECURSIVE PIIHits(_, _, _, _)
PIIHits(config, text, p, pos) ==
    IF pos = <<>> THEN <<>>
    ELSE LET i == Head(pos)
             rest == PIIHits(config, text, p, Tail(pos))
         IN  IF Skips(config, p, text.chars[i])
             THEN rest
             ELSE << [pii_type |-> p.pii_type, start |-> i - 1, end |-> i,
                      matched_text |-> SubSeq(text.chars, i, i),
                      confidence |-> PIIConfidence(config, p, text.chars[i])] >>
                  \o rest

RECURSIVE RunPIIPatterns(_, _, _)
RunPIIPatterns(config, text, ps) ==
    IF ps = <<>> THEN <<>>
    ELSE PIIHits(config, text, Head(ps), FindIter(text.chars, Head(ps).chars, 1))
         \o RunPIIPatterns(config, text, Tail(ps))

RECURSIVE InsertByStart(_, _)
InsertByStart(m, sorted) ==
    IF sorted = <<>> THEN <<m>>
    ELSE IF m.start < Head(sorted).start THEN <<m>> \o sorted
    ELSE <<Head(sorted)>> \o InsertByStart(m, Tail(sorted))

RECURSIVE SortByStart(_, _)
SortByStart(ms, sorted) ==
    IF ms = <<>> THEN sorted
    ELSE SortByStart(Tail(ms), InsertByStart(Head(ms), sorted))

\* PIIDetector::detect of a detector built with `config`
pii_detect(config, text) ==
    SortByStart(RunPIIPatterns(config, text, pii_get_patterns(config.pattern_set)), <<>>)

\* detect of the detector main.rs builds
PIIDetect(text) == pii_detect(MainPIIConfig, text)

\* ---- handlers.rs: ProcessResponse and its JSON form ----
ProcessResponse(status, pii_matches, injection_matches, hit) ==
    [status |-> status,
     pii_detected |-> pii_matches # <<>>,
     pii_matches |-> pii_matches,
     injection_detected |-> injection_matches # <<>>,
     injection_matches |-> injection_matches,
     cache_hit |-> hit]

\* #[serde(rename_all = "lowercase")] on ProcessStatus
ProcessStatusJson(s) ==
    CASE s = "Success" -> "success"
      [] s = "Blocked" -> "blocked"
      [] s = "RateLimited" -> "ratelimited"
      [] s = "Error" -> "error"

ProcessStatusFromJson(w) ==
    CASE w = "success" -> "Success"
      [] w = "blocked" -> "Blocked"
      [] w = "ratelimited" -> "RateLimited"
      [] w = "error" -> "Error"

\* serde_json::to_string(&response), also what Json(response) sends
Serialize(r) ==
    [schema |-> "ProcessResponse",
     status |-> ProcessStatusJson(r.status),
     pii_detected |-> r.pii_detected,
     pii_matches |-> r.pii_matches,
     injection_detected |-> r.injection_detected,
     injection_matches |-> r.injection_matches,
     cache_hit |-> r.cache_hit]

\* a stored value that is not a ProcessResponse of this schema
Garbage == [schema |-> "other"]

NoResponse == ProcessResponse("Error", <<>>, <<>>, FALSE)

\* a Deserialize that loses the injection matches
DeserializeLossy(v) ==
    IF v.schema = "ProcessResponse"
    THEN [ok |-> TRUE,
          value |-> ProcessResponse(ProcessStatusFromJson(v.status), v.pii_matches,
                                    <<>>, v.cache_hit)]
    ELSE [ok |-> FALSE, value |-> NoResponse]

\* serde_json::from_str::<ProcessResponse>(&cached)
Deserialize(v) ==
    IF v.schema = "ProcessResponse"
    THEN [ok |-> TRUE,
          value |-> [status |-> ProcessStatusFromJson(v.status),
                     pii_detected |-> v.pii_detected,
                     pii_matches |-> v.pii_matches,
                     injection_detected |-> v.injection_detected,
                     injection_matches |-> v.injection_matches,
                     cache_hit |-> v.cache_hit]]
    ELSE [ok |-> FALSE, value |-> NoResponse]

\* Ok(Json(response))
JsonReply(r) == [code |-> 200, body |-> Serialize(r)]

\* every ApiError reported as an internal error
IntoResponseInternal(err) ==
    [code |-> 500,
     body |-> [schema |-> "ErrorResponse", code |-> 500,
               message |-> "Internal server error"]]

\* error.rs: impl IntoResponse for ApiError
IntoResponse(err) ==
    CASE err.kind = "ValidationError" ->
            [code |-> 400,
             body |-> [schema |-> "ErrorResponse", code |-> 400, message |-> err.msg]]
      [] err.kind = "RateLimitError" ->
            [code |-> 429,
             body |-> [schema |-> "ErrorResponse", code |-> 429,
                       message |-> "Rate limit exceeded"]]
      [] OTHER ->
            [code |-> 500,
             body |-> [schema |-> "ErrorResponse", code |-> 500,
                       message |-> "Internal server error"]]

NoReply == [code |-> 0, body |-> [schema |-> "none"]]

\* ---- cache/redis_cache.rs ----
\* The texts that pass validation, and the keys their responses are cached under.
ValidTexts == {t \in Texts : t.len > 0 /\ t.len <= MaxTextLen}

CacheKeys ==
    {generate_cache_key(Namespace, t).key :
        t \in {u \in ValidTexts : generate_cache_key(Namespace, u).ok}}

NoEntry == [present |-> FALSE]

\* cache/types.rs CacheTTL::as_seconds; Custom(n) gives n
as_seconds(ttl) ==
    CASE ttl = "Short" -> [some |-> TRUE, secs |-> 60]
      [] ttl = "Medium" -> [some |-> TRUE, secs |-> 300]
      [] ttl = "Long" -> [some |-> TRUE, secs |-> 3600]
      [] ttl = "Persistent" -> [some |-> FALSE, secs |-> 0]

\* an entry; `writer` records the text of the request that stored it
Entry(value, ttl, by, text) ==
    [present |-> TRUE, value |-> value, ttl |-> ttl, expiry |-> as_seconds(ttl),
     writer |-> [by |-> by, text |-> text]]

\* RedisCache::get: every way one call can end.  The CacheStats counters it
\* bumps are not part of this state.
CacheGet(c, key) ==
    { [ok |-> FALSE, some |-> FALSE, value |-> Garbage],
      IF c[key].present
      THEN [ok |-> TRUE, some |-> TRUE, value |-> c[key].value]
      ELSE [ok |-> TRUE, some |-> FALSE, value |-> Garbage] }

\* RedisCache::set: no connection, SETEX done and acknowledged, SETEX done
\* or not done and the acknowledgement lost
CacheSet(c, key, e) ==
    { [cache |-> c, ok |-> FALSE],
      [cache |-> [c EXCEPT ![key] = e], ok |-> TRUE],
      [cache |-> [c EXCEPT ![key] = e], ok |-> FALSE] }

\* ---- ratelimit/types.rs: RateLimitTier::config ----
FreeConfig  == [capacity |-> 10, num |-> 100, den |-> 3600]
BasicConfig == [capacity |-> 50, num |-> 1000, den |-> 3600]

\* The rate-limit keys live in the shared store; they are charged by every
\* instance of the service and refilled by time.  process_text is modelled
\* against the states the key of its caller can be in: never used, empty,
\* holding one token, full.
KeyStates(cfg) ==
    {Absent} \cup {[exists |-> TRUE, tokens |-> k * cfg.den, last |-> wall] :
                      k \in {0, 1, cfg.capacity}}

\* ---- handlers.rs: process_text ----
NoRequest ==
    [text |-> TextOf(<<>>), user_id |-> FALSE, check_pii |-> FALSE,
     check_injection |-> FALSE, use_cache |-> FALSE]

PipeStart ==
    /\ cache = [k \in CacheKeys |-> NoEntry]
    /\ p_pc = "idle"
    /\ request = NoRequest
    /\ cache_key = NoKey
    /\ cache_hit = FALSE
    /\ response = NoResponse
    /\ p_reply = NoReply
    /\ p_trace = <<>>
    /\ p_seen = NoEntry

Step(name, out) == [step |-> name, out |-> out]

\* a limiter error counted as an admission
LimiterFailOpen(res) ==
    IF res.kind = "Limited" THEN "limited" ELSE "admit"

\* `.map_err(..)?` and `!result.is_allowed()` on a check_rate_limit result
LimiterVerdict(res) ==
    CASE res.kind = "Err" -> "error"
      [] res.kind = "Limited" -> "limited"
      [] res.kind = "Allowed" -> "admit"

\* a High match blocks as well
BlocksHigh(m) == SeverityRank(m.severity) >= SeverityRank("High")

\* matches!(m.severity, Severity::Critical)
Blocks(m) == m.severity = "Critical"

\* steps 3 to 6: run the requested detectors, decide the status, build the response
DetectResponse(req, hit) ==
    LET pii_matches == IF req.check_pii THEN PIIDetect(req.text) ELSE <<>>
        injection_matches == IF req.check_injection THEN InjectionDetect(req.text) ELSE <<>>
        status == IF /\ injection_matches # <<>>
                     /\ \E i \in 1..Len(injection_matches) : Blocks(injection_matches[i])
                  THEN "Blocked" ELSE "Success"
    IN  ProcessResponse(status, pii_matches, injection_matches, hit)

\* every entry stored for five minutes
CacheTTLMedium(r) == "Medium"

\* the TTL of step 7
CacheTTLFor(r) == IF r.pii_detected \/ r.injection_detected THEN "Short" ELSE "Medium"

\* detection followed by another cache lookup
AfterDetectLookup(key) == "lookup"

\* where the request goes once the response is built
AfterDetect(key) == IF key.ok THEN "store" ELSE "done"

\* a failed cache write reported as a cache error
ReplyFailingStore(ok, r) ==
    IF ok THEN JsonReply(r)
    ELSE IntoResponse([kind |-> "CacheError", msg |-> "Failed to cache response"])

\* `if let Err(e) = state.cache.set(..) { warn!(..) }`, then Ok(Json(response))
ReplyAfterStore(ok, r) == JsonReply(r)

\* The handler is entered: input validation.
ProcessText(txt, uid, cp, ci, uc) ==
    /\ p_pc = "idle"
    /\ request' = [text |-> txt, user_id |-> uid, check_pii |-> cp,
                   check_injection |-> ci, use_cache |-> uc]
    /\ IF txt.len = 0
       THEN /\ p_reply' = IntoResponse([kind |-> "ValidationError",
                                      msg |-> "Text cannot be empty"])
            /\ p_trace' = <<Step("validate", "Err")>>
            /\ p_pc' = "done"
       ELSE IF txt.len > MaxTextLen
       THEN /\ p_reply' = IntoResponse([kind |-> "ValidationError",
                                      msg |-> "Text exceeds maximum length of 100,000 characters"])
            /\ p_trace' = <<Step("validate", "Err")>>
            /\ p_pc' = "done"
       ELSE /\ p_reply' = NoReply
            /\ p_trace' = <<Step("validate", "Ok")>>
            /\ p_pc' = "ip"
    /\ cache_key' = NoKey
    /\ cache_hit' = FALSE
    /\ response' = NoResponse
    /\ p_seen' = NoEntry
    /\ UNCHANGED cache
    /\ UNCHANGED notPipe

\* Step 1: the IP bucket (Free tier), then the user bucket (Basic tier) of a
\* request that carries a user_id.
RateLimit(dim) ==
    /\ p_pc = dim
    /\ LET cfg == IF dim = "ip" THEN FreeConfig ELSE BasicConfig
           name == IF dim = "ip" THEN "rate_limit_ip" ELSE "rate_limit_user"
       IN  \E b \in KeyStates(cfg) :
           \E o \in CheckRateLimit(b, cfg, 1, wall) :
              LET verdict == LimiterVerdict(o.res)
              IN  /\ p_trace' = Append(p_trace, Step(name, o.res.kind))
                  /\ CASE verdict = "error" ->
                            /\ p_reply' = IntoResponse([kind |-> "RateLimitError",
                                                      msg |-> "Rate limit check failed"])
                            /\ p_pc' = "done"
                       [] verdict = "limited" ->
                            /\ p_reply' = JsonReply(ProcessResponse("RateLimited",
                                                                  <<>>, <<>>, FALSE))
                            /\ p_pc' = "done"
                       [] verdict = "admit" ->
                            /\ p_reply' = p_reply
                            /\ p_pc' = IF dim = "ip" /\ request.user_id
                                       THEN "user" ELSE "lookup"
    /\ UNCHANGED <<cache, request, cache_key, cache_hit, response, p_seen>>
    /\ UNCHANGED notPipe

\* Step 2: the cache key and the cache lookup.
CacheLookup ==
    /\ p_pc = "lookup"
    /\ LET key == IF request.use_cache
                  THEN generate_cache_key(Namespace, request.text)
                  ELSE NoKey
       IN  /\ cache_key' = key
           /\ IF ~key.ok
              THEN /\ p_pc' = "detect"
                   /\ UNCHANGED <<cache_hit, p_reply, p_trace, p_seen>>
              ELSE \E g \in CacheGet(cache, key.key) :
                   /\ p_seen' = cache[key.key]
                   /\ IF g.ok /\ g.some
                      THEN /\ cache_hit' = TRUE
                           /\ p_trace' = Append(p_trace, Step("cache_get", "Some"))
                           /\ LET d == Deserialize(g.value)
                              IN  IF d.ok
                                  THEN /\ p_reply' = JsonReply([d.value EXCEPT !.cache_hit = TRUE])
                                       /\ p_pc' = "done"
                                  ELSE /\ p_reply' = p_reply
                                       /\ p_pc' = "detect"
                      ELSE /\ cache_hit' = cache_hit
                           /\ p_trace' = Append(p_trace,
                                  Step("cache_get", IF g.ok THEN "None" ELSE "Err"))
                           /\ p_reply' = p_reply
                           /\ p_pc' = "detect"
    /\ UNCHANGED <<cache, request, response>>
    /\ UNCHANGED notPipe

\* Steps 3 to 6: PII detection, injection detection, status, response.
Detect ==
    /\ p_pc = "detect"
    /\ response' = DetectResponse(request, cache_hit)
    /\ p_trace' = p_trace
                  \o (IF request.check_pii THEN <<Step("detect_pii", "Ok")>> ELSE <<>>)
                  \o (IF request.check_injection
                      THEN <<Step("detect_injection", "Ok")>> ELSE <<>>)
    /\ p_pc' = AfterDetect(cache_key)
    /\ p_reply' = IF AfterDetect(cache_key) = "done" THEN JsonReply(response') ELSE p_reply
    /\ UNCHANGED <<cache, request, cache_key, cache_hit, p_seen>>
    /\ UNCHANGED notPipe

\* Step 7: the response is stored; a failure is logged and ignored.
CacheStore ==
    /\ p_pc = "store"
    /\ \E s \in CacheSet(cache, cache_key.key,
                         Entry(Serialize(response), CacheTTLFor(response),
                               "process_text", request.text)) :
          /\ cache' = s.cache
          /\ p_trace' = Append(p_trace, Step("cache_set", IF s.ok THEN "Ok" ELSE "Err"))
          /\ p_reply' = ReplyAfterStore(s.ok, response)
    /\ p_pc' = "done"
    /\ UNCHANGED <<request, cache_key, cache_hit, response, p_seen>>
    /\ UNCHANGED notPipe

\* The response has been sent; the next request can come in.
Return ==
    /\ p_pc = "done"
    /\ p_pc' = "idle"
    /\ request' = NoRequest
    /\ cache_key' = NoKey
    /\ cache_hit' = FALSE
    /\ response' = NoResponse
    /\ p_reply' = NoReply
    /\ p_trace' = <<>>
    /\ p_seen' = NoEntry
    /\ UNCHANGED cache
    /\ UNCHANGED notPipe

\* The TTL of an entry runs out.
Expire(k) ==
    /\ cache[k].present
    /\ cache' = [cache EXCEPT ![k] = NoEntry]
    /\ UNCHANGED <<p_pc, request, cache_key, cache_hit, response, p_reply, p_trace, p_seen>>
    /\ UNCHANGED notPipe

\* A value this build cannot deserialize is stored under a key.
ForeignStore(k) ==
    /\ cache[k] # Entry(Garbage, "Medium", "other", TextOf(<<>>))
    /\ cache' = [cache EXCEPT ![k] = Entry(Garbage, "Medium", "other", TextOf(<<>>))]
    /\ UNCHANGED <<p_pc, request, cache_key, cache_hit, response, p_reply, p_trace, p_seen>>
    /\ UNCHANGED notPipe

\* A request served concurrently, by this or another instance, reaches its
\* cache store between the lookup and the store of the request in flight.
\* (Before the lookup and after the store the same write is made by a
\* request that ran earlier or runs later.)
PeerStore(txt, cp, ci) ==
    LET key == generate_cache_key(Namespace, txt)
        r == DetectResponse([NoRequest EXCEPT !.text = txt, !.check_pii = cp,
                                              !.check_injection = ci], FALSE)
        e == Entry(Serialize(r), CacheTTLFor(r), "process_text", txt)
    IN  /\ p_pc \in {"detect", "store"}
        /\ key.ok
        /\ cache[key.key] # e
        /\ cache' = [cache EXCEPT ![key.key] = e]
        /\ UNCHANGED <<p_pc, request, cache_key, cache_hit, response, p_reply, p_trace, p_seen>>
        /\ UNCHANGED notPipe

NextPipeline ==
    \/ \E txt \in Texts : \E uid, cp, ci, uc \in BOOLEAN : ProcessText(txt, uid, cp, ci, uc)
    \/ \E dim \in {"ip", "user"} : RateLimit(dim)
    \/ CacheLookup
    \/ Detect
    \/ CacheStore
    \/ Return
    \/ \E k \in CacheKeys : Expire(k)
    \/ \E k \in CacheKeys : ForeignStore(k)
    \/ \E txt \in ValidTexts : \E cp, ci \in BOOLEAN : PeerStore(txt, cp, ci)

(***************************************************************************)
(* RedisCache and its CacheStats (cache/redis_cache.rs, cache/types.rs).   *)
(* One cache operation is followed step by step; the record_* calls, the   *)
(* writes and the deletes of every other thread and client, each of them   *)
(* atomic (fetch_add, a single store command), interleave with it.  Keys   *)
(* and patterns are sequences of characters.  The counters stay far below  *)
(* 2^64 and the rates are exact fractions.                                 *)
(***************************************************************************)
MaxCount == 2      \* the counters are raised no further than to this sum

Counters == {"hits", "misses", "sets", "deletes", "errors"}

\* the keys the store can hold
KvKeys == { <<"r", ":", "a">>, <<"r", ":", "b">>, <<"o", ":", "a">> }

\* the patterns invalidate_pattern is called with
Patterns == { <<>>, <<"r">>, <<"*">>, <<"*", ":", "*">>, <<"r", ":", "*">> }

\* the glob match of the KEYS command
RECURSIVE GlobMatch(_, _)
GlobMatch(p, k) ==
    IF p = <<>> THEN k = <<>>
    ELSE IF Head(p) = "*"
    THEN GlobMatch(Tail(p), k) \/ (k # <<>> /\ GlobMatch(p, Tail(k)))
    ELSE k # <<>> /\ Head(k) = Head(p) /\ GlobMatch(Tail(p), Tail(k))

\* the validation without the check for '*' and '*:*'
ValidateAllowsAll(p) ==
    IF p = <<>> THEN FALSE
    ELSE IF ~(\E i \in 1..Len(p) : p[i] = ":") THEN FALSE
    ELSE TRUE

\* cache/key.rs validate_cache_pattern: TRUE when the pattern is accepted
validate_cache_pattern(p) ==
    IF p = <<>> THEN FALSE
    ELSE IF ~(\E i \in 1..Len(p) : p[i] = ":") THEN FALSE
    ELSE IF p = <<"*">> \/ p = <<"*", ":", "*">> THEN FALSE
    ELSE TRUE

\* fetch_add that loses the increment
fetch_add_lost(v, n) == v

\* AtomicU64::fetch_add
fetch_add(v, n) == v + n

\* CacheStats::record_hit, record_miss, record_set, record_delete, record_error
Record(st, c) == [st EXCEPT ![c] = fetch_add(@, 1)]

\* hits / misses in place of hits / (hits + misses)
HitRateOverMisses(st) ==
    IF st.misses = 0 THEN [num |-> 0, den |-> 1]
    ELSE [num |-> st.hits, den |-> st.misses]

\* CacheStats::hit_rate, as the fraction num / den
hit_rate(st) ==
    LET total == st.hits + st.misses
    IN  IF total = 0 THEN [num |-> 0, den |-> 1]
        ELSE [num |-> st.hits, den |-> total]

\* CacheStats::miss_rate: 1 - hit_rate
miss_rate(st) ==
    [num |-> hit_rate(st).den - hit_rate(st).num, den |-> hit_rate(st).den]

\* CacheStats::total_operations
total_operations(st) == st.hits + st.misses

NoOp == [name |-> "none", key |-> <<>>]
NoCacheResult == [kind |-> "None", value |-> 0]
NoCacheReply == [kind |-> "None", keys |-> {}]

StatsStart ==
    /\ stats = [c \in Counters |-> 0]
    /\ calls = [c \in Counters |-> 0]
    /\ kv = [k \in KvKeys |-> FALSE]
    /\ c_pc = "idle"
    /\ c_op = NoOp
    /\ c_keys = {}
    /\ c_left = 0
    /\ c_reply = NoCacheReply
    /\ c_result = NoCacheResult
    /\ c_before = {}
    /\ c_removed = {}

Present(store) == {k \in KvKeys : store[k]}

\* A cache operation is called.  invalidate_pattern validates its pattern
\* before anything else; reset has no connection to obtain.
CacheCall(name, key) ==
    /\ c_pc = "idle"
    /\ c_op' = [name |-> name, key |-> key]
    /\ c_before' = Present(kv)
    /\ c_removed' = {}
    /\ c_keys' = {}
    /\ c_left' = 0
    /\ c_reply' = NoCacheReply
    /\ IF name = "invalidate_pattern" /\ ~validate_cache_pattern(key)
       THEN /\ c_result' = [kind |-> "InvalidPattern", value |-> 0]
            /\ c_pc' = "done"
       ELSE /\ c_result' = NoCacheResult
            /\ c_pc' = IF name = "reset" THEN "reset_hits" ELSE "conn"
    /\ UNCHANGED <<stats, calls, kv>>
    /\ UNCHANGED notStat

\* self.redis.get_connection().await?: a connection, or the error returned as it is
CacheConnect ==
    /\ c_pc = "conn"
    /\ \/ /\ c_pc' = "cmd"
          /\ c_result' = c_result
       \/ /\ c_pc' = "done"
          /\ c_result' = [kind |-> "Err", value |-> 0]
    /\ UNCHANGED <<stats, calls, kv, c_op, c_keys, c_left, c_reply, c_before, c_removed>>
    /\ UNCHANGED notStat

\* one record_* call: the counter is bumped with fetch_add
RecordCall(c) ==
    /\ stats.hits + stats.misses + stats.sets + stats.deletes + stats.errors < MaxCount
    /\ stats' = Record(stats, c)
    /\ calls' = [calls EXCEPT ![c] = @ + 1]

OkReply(keys) == [kind |-> "Ok", keys |-> keys]
ErrReply == [kind |-> "Err", keys |-> {}]

\* The store executes the command of the operation, or the command fails:
\* GET, SETEX, DEL of one key, and KEYS for invalidate_pattern.  A failed
\* write may or may not have been executed.
CacheCommand ==
    /\ c_pc = "cmd"
    /\ c_pc' = "ack"
    /\ CASE c_op.name = "get" ->
               /\ c_reply' \in {OkReply(Present(kv) \cap {c_op.key}), ErrReply}
               /\ UNCHANGED <<kv, c_removed>>
         [] c_op.name = "set" ->
               \/ /\ kv' = [kv EXCEPT ![c_op.key] = TRUE]
                  /\ c_reply' \in {OkReply({}), ErrReply}
                  /\ UNCHANGED c_removed
               \/ /\ c_reply' = ErrReply
                  /\ UNCHANGED <<kv, c_removed>>
         [] c_op.name = "delete" ->
               \/ /\ kv' = [kv EXCEPT ![c_op.key] = FALSE]
                  /\ c_removed' = Present(kv) \cap {c_op.key}
                  /\ c_reply' \in {OkReply({}), ErrReply}
               \/ /\ c_reply' = ErrReply
                  /\ UNCHANGED <<kv, c_removed>>
         [] c_op.name = "invalidate_pattern" ->
               /\ c_reply' \in {OkReply({k \in Present(kv) : GlobMatch(c_op.key, k)}),
                                ErrReply}
               /\ UNCHANGED <<kv, c_removed>>
    /\ UNCHANGED <<stats, calls, c_op, c_keys, c_left, c_result, c_before>>
    /\ UNCHANGED notStat

\* The answer arrives: the operation bumps its counter and returns, or, for
\* invalidate_pattern with keys found, goes on to the bulk delete.
CacheAck ==
    /\ c_pc = "ack"
    /\ IF c_reply.kind = "Err"
       THEN /\ RecordCall("errors")
            /\ c_result' = [kind |-> "Err", value |-> 0]
            /\ c_pc' = "done"
            /\ UNCHANGED c_keys
       ELSE CASE c_op.name = "get" ->
                    /\ IF c_reply.keys # {}
                       THEN /\ RecordCall("hits")
                            /\ c_result' = [kind |-> "Some", value |-> 0]
                       ELSE /\ RecordCall("misses")
                            /\ c_result' = [kind |-> "NoValue", value |-> 0]
                    /\ c_pc' = "done"
                    /\ UNCHANGED c_keys
              [] c_op.name = "set" ->
                    /\ RecordCall("sets")
                    /\ c_result' = [kind |-> "Ok", value |-> 0]
                    /\ c_pc' = "done"
                    /\ UNCHANGED c_keys
              [] c_op.name = "delete" ->
                    /\ RecordCall("deletes")
                    /\ c_result' = [kind |-> "Ok", value |-> 0]
                    /\ c_pc' = "done"
                    /\ UNCHANGED c_keys
              [] c_op.name = "invalidate_pattern" ->
                    /\ c_keys' = c_reply.keys
                    /\ IF c_reply.keys = {}
                       THEN /\ c_result' = [kind |-> "Ok", value |-> 0]
                            /\ c_pc' = "done"
                       ELSE /\ c_result' = c_result
                            /\ c_pc' = "del"
                    /\ UNCHANGED <<stats, calls>>
    /\ UNCHANGED <<kv, c_op, c_left, c_reply, c_before, c_removed>>
    /\ UNCHANGED notStat

\* invalidate_pattern: the store executes DEL on the keys found, or the
\* command fails, executed or not.
BulkDelete ==
    /\ c_pc = "del"
    /\ c_pc' = "del_ack"
    /\ \/ /\ kv' = [k \in KvKeys |-> kv[k] /\ k \notin c_keys]
          /\ c_removed' = Present(kv) \cap c_keys
          /\ c_reply' \in {OkReply({}), ErrReply}
       \/ /\ c_reply' = ErrReply
          /\ UNCHANGED <<kv, c_removed>>
    /\ UNCHANGED <<stats, calls, c_op, c_keys, c_left, c_result, c_before>>
    /\ UNCHANGED notStat

\* invalidate_pattern: the answer to DEL arrives; its reply value is dropped
\* and `count` is keys.len().
BulkDeleteAck ==
    /\ c_pc = "del_ack"
    /\ IF c_reply.kind = "Err"
       THEN /\ RecordCall("errors")
            /\ c_result' = [kind |-> "Err", value |-> 0]
            /\ c_pc' = "done"
            /\ c_left' = c_left
       ELSE /\ c_left' = Cardinality(c_keys)
            /\ c_pc' = "count"
            /\ UNCHANGED <<stats, calls, c_result>>
    /\ UNCHANGED <<kv, c_op, c_keys, c_reply, c_before, c_removed>>
    /\ UNCHANGED notStat

\* invalidate_pattern: one turn of `for _ in 0..count { record_delete() }`;
\* after the last one Ok(count) is returned.
RecordDeleteLoop ==
    /\ c_pc = "count"
    /\ c_left > 0
    /\ RecordCall("deletes")
    /\ c_left' = c_left - 1
    /\ IF c_left = 1
       THEN /\ c_result' = [kind |-> "Ok", value |-> Cardinality(c_keys)]
            /\ c_pc' = "done"
       ELSE /\ c_result' = c_result
            /\ c_pc' = c_pc
    /\ UNCHANGED <<kv, c_op, c_keys, c_reply, c_before, c_removed>>
    /\ UNCHANGED notStat

ResetOrder == <<"hits", "misses", "sets", "deletes", "errors">>
ResetPc == <<"reset_hits", "reset_misses", "reset_sets", "reset_deletes", "reset_errors">>

\* CacheStats::reset: one store(0) after the other
ResetStore(i) ==
    /\ c_pc = ResetPc[i]
    /\ stats' = [stats EXCEPT ![ResetOrder[i]] = 0]
    /\ calls' = [calls EXCEPT ![ResetOrder[i]] = 0]
    /\ IF i = Len(ResetOrder)
       THEN /\ c_pc' = "done"
            /\ c_result' = [kind |-> "Ok", value |-> 0]
       ELSE /\ c_pc' = ResetPc[i + 1]
            /\ c_result' = c_result
    /\ UNCHANGED <<kv, c_op, c_keys, c_left, c_reply, c_before, c_removed>>
    /\ UNCHANGED notStat

\* the caller takes the result; the next operation may start
CacheReturn ==
    /\ c_pc = "done"
    /\ c_pc' = "idle"
    /\ c_op' = NoOp
    /\ c_keys' = {}
    /\ c_left' = 0
    /\ c_reply' = NoCacheReply
    /\ c_result' = NoCacheResult
    /\ c_before' = {}
    /\ c_removed' = {}
    /\ UNCHANGED <<stats, calls, kv>>
    /\ UNCHANGED notStat

\* another task's operation records on the shared counters
OtherRecord(c) ==
    /\ RecordCall(c)
    /\ UNCHANGED <<kv, c_pc, c_op, c_keys, c_left, c_reply, c_result, c_before, c_removed>>
    /\ UNCHANGED notStat

\* another client writes a key
OtherSet(k) ==
    /\ ~kv[k]
    /\ kv' = [kv EXCEPT ![k] = TRUE]
    /\ UNCHANGED <<stats, calls, c_pc, c_op, c_keys, c_left, c_reply, c_result, c_before,
                   c_removed>>
    /\ UNCHANGED notStat

\* a key's TTL runs out, or another client deletes it
OtherDelete(k) ==
    /\ kv[k]
    /\ kv' = [kv EXCEPT ![k] = FALSE]
    /\ UNCHANGED <<stats, calls, c_pc, c_op, c_keys, c_left, c_reply, c_result, c_before,
                   c_removed>>
    /\ UNCHANGED notStat

NextCache ==
    \/ \E name \in {"get", "set", "delete"} : \E k \in KvKeys : CacheCall(name, k)
    \/ \E p \in Patterns : CacheCall("invalidate_pattern", p)
    \/ CacheCall("reset", <<>>)
    \/ CacheConnect
    \/ CacheCommand
    \/ CacheAck
    \/ BulkDelete
    \/ BulkDeleteAck
    \/ RecordDeleteLoop
    \/ \E i \in 1..Len(ResetOrder) : ResetStore(i)
    \/ CacheReturn
    \/ \E c \in Counters : OtherRecord(c)
    \/ \E k \in KvKeys : OtherSet(k)
    \/ \E k \in KvKeys : OtherDelete(k)

(***************************************************************************)
(* RedisClient::get_connection (redis_client.rs).  Each caller runs its    *)
(* own copy of the loop; what the pool answers is not in the caller's      *)
(* hands.  The pool is built with wait, create and recycle timeouts, so    *)
(* every pool.get() is answered, and every sleep ends.                     *)
(***************************************************************************)
NumCallers == 3

Callers == 1..NumCallers

max_retries == 3
InitialBackoffMs == 100
MaxBackoffMs == 5000

ConnStart ==
    /\ g_pc = [c \in Callers |-> "idle"]
    /\ retry_count = [c \in Callers |-> 0]
    /\ backoff_ms = [c \in Callers |-> InitialBackoffMs]
    /\ g_attempts = [c \in Callers |-> <<>>]
    /\ g_waited = [c \in Callers |-> <<>>]
    /\ g_result = [c \in Callers |-> "none"]

\* the backoff that never grows
NextBackoffFlat(b) == b

\* backoff_ms = min(backoff_ms * 2, 5000)
NextBackoff(b) == Min(b * 2, MaxBackoffMs)

\* get_connection is called: the locals are set up and the loop is entered
GetConnection(c) ==
    /\ g_pc[c] = "idle"
    /\ g_pc' = [g_pc EXCEPT ![c] = "try"]
    /\ retry_count' = [retry_count EXCEPT ![c] = 0]
    /\ backoff_ms' = [backoff_ms EXCEPT ![c] = InitialBackoffMs]
    /\ g_attempts' = [g_attempts EXCEPT ![c] = <<>>]
    /\ g_waited' = [g_waited EXCEPT ![c] = <<>>]
    /\ g_result' = [g_result EXCEPT ![c] = "none"]
    /\ UNCHANGED notConn

\* self.pool.get().await is answered: Ok returns the connection; Err counts
\* the retry and either gives up or goes to sleep
PoolGet(c) ==
    /\ g_pc[c] = "try"
    /\ \E answer \in {"ok", "err"} :
          /\ g_attempts' = [g_attempts EXCEPT ![c] = Append(@, answer)]
          /\ IF answer = "ok"
             THEN /\ g_result' = [g_result EXCEPT ![c] = "Ok"]
                  /\ g_pc' = [g_pc EXCEPT ![c] = "done"]
                  /\ UNCHANGED retry_count
             ELSE /\ retry_count' = [retry_count EXCEPT ![c] = @ + 1]
                  /\ IF retry_count[c] + 1 >= max_retries
                     THEN /\ g_result' = [g_result EXCEPT ![c] = "Err"]
                          /\ g_pc' = [g_pc EXCEPT ![c] = "done"]
                     ELSE /\ g_result' = g_result
                          /\ g_pc' = [g_pc EXCEPT ![c] = "sleep"]
    /\ UNCHANGED <<backoff_ms, g_waited>>
    /\ UNCHANGED notConn

\* sleep(backoff_ms) ends; the backoff is doubled up to the cap
Wake(c) ==
    /\ g_pc[c] = "sleep"
    /\ g_waited' = [g_waited EXCEPT ![c] = Append(@, backoff_ms[c])]
    /\ backoff_ms' = [backoff_ms EXCEPT ![c] = NextBackoff(@)]
    /\ g_pc' = [g_pc EXCEPT ![c] = "try"]
    /\ UNCHANGED <<retry_count, g_attempts, g_result>>
    /\ UNCHANGED notConn

\* the caller has taken the result
ConnReturn(c) ==
    /\ g_pc[c] = "done"
    /\ g_pc' = [g_pc EXCEPT ![c] = "idle"]
    /\ retry_count' = [retry_count EXCEPT ![c] = 0]
    /\ backoff_ms' = [backoff_ms EXCEPT ![c] = InitialBackoffMs]
    /\ g_attempts' = [g_attempts EXCEPT ![c] = <<>>]
    /\ g_waited' = [g_waited EXCEPT ![c] = <<>>]
    /\ g_result' = [g_result EXCEPT ![c] = "none"]
    /\ UNCHANGED notConn

NextConnect ==
    \/ \E c \in Callers : GetConnection(c)
    \/ \E c \in Callers : PoolGet(c)
    \/ \E c \in Callers : Wake(c)
    \/ \E c \in Callers : ConnReturn(c)

(***************************************************************************)
(* generate_cache_key and generate_cache_key_fast (cache/key.rs), called   *)
(* with a namespace and data, and again with the data already trimmed and  *)
(* lowercased.  A digest is represented by the bytes it was computed from, *)
(* tagged with the hash function.                                          *)
(***************************************************************************)
MaxDataLen == 3

KeyChars == {" ", "i", "I"}

DataStrings == UNION {[1..n -> KeyChars] : n \in 0..MaxDataLen}

KeyNamespaces == {"", Namespace}

NoCalls == [direct |-> {}, normal |-> {}]

KeyStart ==
    /\ k_namespace = Namespace
    /\ k_data = <<>>
    /\ k_strong = NoCalls
    /\ k_fast = NoCalls

xxh3_64(bytes) == <<"xxh3", bytes>>

\* cache/key.rs generate_cache_key_fast
generate_cache_key_fast(namespace, text) ==
    IF text.len = 0 THEN NoKey
    ELSE IF namespace = "" THEN NoKey
    ELSE LET normalized == Lowercase(trim(text.chars))
         IN  IF normalized = <<>> THEN NoKey
             ELSE [ok |-> TRUE, key |-> <<namespace, xxh3_64(normalized)>>]

\* generate_cache_key(namespace, data)
KeyCall ==
    /\ k_strong' = [k_strong EXCEPT
                      !.direct = @ \cup {generate_cache_key(k_namespace, TextOf(k_data))}]
    /\ k_strong' # k_strong
    /\ UNCHANGED <<k_namespace, k_data, k_fast>>
    /\ UNCHANGED notKey

\* generate_cache_key(namespace, data.trim().to_lowercase())
KeyCallNormalized ==
    /\ k_strong' = [k_strong EXCEPT
                      !.normal = @ \cup {generate_cache_key(k_namespace,
                                             TextOf(Lowercase(trim(k_data))))}]
    /\ k_strong' # k_strong
    /\ UNCHANGED <<k_namespace, k_data, k_fast>>
    /\ UNCHANGED notKey

\* generate_cache_key_fast(namespace, data)
FastKeyCall ==
    /\ k_fast' = [k_fast EXCEPT
                    !.direct = @ \cup {generate_cache_key_fast(k_namespace, TextOf(k_data))}]
    /\ k_fast' # k_fast
    /\ UNCHANGED <<k_namespace, k_data, k_strong>>
    /\ UNCHANGED notKey

\* generate_cache_key_fast(namespace, data.trim().to_lowercase())
FastKeyCallNormalized ==
    /\ k_fast' = [k_fast EXCEPT
                    !.normal = @ \cup {generate_cache_key_fast(k_namespace,
                                           TextOf(Lowercase(trim(k_data))))}]
    /\ k_fast' # k_fast
    /\ UNCHANGED <<k_namespace, k_data, k_strong>>
    /\ UNCHANGED notKey

NextKey ==
    \/ KeyCall
    \/ KeyCallNormalized
    \/ FastKeyCall
    \/ FastKeyCallNormalized


(***************************************************************************)
(* InjectionDetector::detect (injection/detector.rs) called on any text    *)
(* by a detector of any configuration.  A text is a sequence of tokens:    *)
(* "i", "h" and "r" are matched by a Critical, a High and a Medium         *)
(* pattern, "a" by the academic, "t" by the testing and "n" by the         *)
(* negation context pattern, and two "q" are a pair of quotes.             *)
(***************************************************************************)
MaxInjLen == 3

InjChars == {"i", "h", "r", "a", "t", "n", "q"}

InjTexts ==
    {[chars |-> cs, len |-> Len(cs), high_entropy |-> e] :
        cs \in UNION {[1..n -> InjChars] : n \in 0..MaxInjLen}, e \in BOOLEAN}

Severities == {"Low", "Medium", "High", "Critical"}

InjConfigs ==
    [detection_mode : {"Strict", "Standard", "Relaxed"},
     enable_context_analysis : BOOLEAN,
     enable_entropy_check : BOOLEAN,
     severity_threshold : Severities]

NotDetected == [run |-> FALSE, matches |-> <<>>]

InjStart ==
    /\ j_text = TextOf(<<>>)
    /\ j_config = MainInjectionConfig
    /\ j_matches = NotDetected

\* detector.detect(text)
DetectCall ==
    /\ ~j_matches.run
    /\ j_matches' = [run |-> TRUE, matches |-> detect(j_config, j_text)]
    /\ UNCHANGED <<j_text, j_config>>
    /\ UNCHANGED notInj

NextInjection == DetectCall

(***************************************************************************)
(* PIIDetector::detect (pii/detector.rs) called on any text by a detector  *)
(* of any configuration.                                                   *)
(***************************************************************************)
MaxPIILen == 2

PIIChars == {"s", "z", "c", "d", "e", "f", "p", "o", "x"}

PIITexts == {TextOf(cs) : cs \in UNION {[1..n -> PIIChars] : n \in 0..MaxPIILen}}

PIIConfigs ==
    [pattern_set : {"Strict", "Standard", "Relaxed"},
     enable_validation : BOOLEAN,
     enable_context : BOOLEAN]

PIIStart ==
    /\ i_text = TextOf(<<>>)
    /\ i_config = MainPIIConfig
    /\ i_matches = NotDetected

\* detector.detect(text)
PIIDetectCall ==
    /\ ~i_matches.run
    /\ i_matches' = [run |-> TRUE, matches |-> pii_detect(i_config, i_text)]
    /\ UNCHANGED <<i_text, i_config>>
    /\ UNCHANGED notPII

NextPII == PIIDetectCall

(***************************************************************************)
(* redact (pii/redactor.rs) called with any strategy and any list of       *)
(* matches whose ranges lie inside the text.  A text is a sequence of      *)
(* one-byte characters.                                                    *)
(***************************************************************************)
MaxRedactLen == 4
MaxMatches == 2

HashHexLen == 16
PartialKeep == 4

RedactTexts == {SubSeq(<<"a", "b", "c", "d", "e", "f">>, 1, n) : n \in 0..MaxRedactLen}

\* PIIMatch::new for the range [start, end) of the text
RangeMatch(cs, start, end) ==
    [pii_type |-> "Email", start |-> start, end |-> end,
     matched_text |-> SubSeq(cs, start + 1, end), confidence |-> 90]

\* the matches whose range lies inside the text
RangesIn(cs) ==
    {m \in {RangeMatch(cs, a, b) : a \in 0..Len(cs), b \in 0..Len(cs)} : m.start < m.end}

MatchLists(cs) == UNION {[1..n -> RangesIn(cs)] : n \in 0..MaxMatches}

Strategies == {"Mask", "Hash", "Partial", "Remove", "Token"}

NotRedacted == [run |-> FALSE, ok |-> TRUE, text |-> <<>>]

RedStart ==
    /\ r_text = <<>>
    /\ r_matches = <<>>
    /\ r_strategy = "Mask"
    /\ r_result = NotRedacted

Repeat(c, n) == [k \in 1..n |-> c]

\* PIIMatch::len
MatchLen(m) == m.end - m.start

mask_replacement(m) == Repeat("*", MatchLen(m))

\* the first 16 hex digits of the SHA-256 of the matched text
hash_replacement(m) == Repeat("#", HashHexLen)

partial_replacement(m) ==
    LET len == Len(m.matched_text)
    IN  IF len <= PartialKeep THEN Repeat("X", len)
        ELSE Repeat("X", len - PartialKeep) \o SubSeq(m.matched_text, len - PartialKeep + 1, len)

\* the decimal digits of a number
RECURSIVE Digits(_)
Digits(n) ==
    LET digit(d) == <<"0", "1", "2", "3", "4", "5", "6", "7", "8", "9">>[d + 1]
    IN  IF n < 10 THEN <<digit(n)>> ELSE Digits(n \div 10) \o <<digit(n % 10)>>

\* format!("<{}-TOKEN-{}>", pii_type, start)
token_replacement(m) ==
    <<"<", m.pii_type, "-", "T", "O", "K", "E", "N", "-">> \o Digits(m.start) \o <<">">>

Replacement(strategy, m) ==
    CASE strategy = "Mask" -> mask_replacement(m)
      [] strategy = "Hash" -> hash_replacement(m)
      [] strategy = "Partial" -> partial_replacement(m)
      [] strategy = "Remove" -> <<>>
      [] strategy = "Token" -> token_replacement(m)

\* sort_by_key(|m| Reverse(m.start)), a stable sort
RECURSIVE InsertByStartReverse(_, _)
InsertByStartReverse(m, sorted) ==
    IF sorted = <<>> THEN <<m>>
    ELSE IF m.start > Head(sorted).start THEN <<m>> \o sorted
    ELSE <<Head(sorted)>> \o InsertByStartReverse(m, Tail(sorted))

RECURSIVE SortByStartReverse(_, _)
SortByStartReverse(ms, sorted) ==
    IF ms = <<>> THEN sorted
    ELSE SortByStartReverse(Tail(ms), InsertByStartReverse(Head(ms), sorted))

\* String::replace_range(start..end, replacement): panics when the range is
\* not inside the string
replace_range(res, start, end, replacement) ==
    IF ~res.ok THEN res
    ELSE IF start > end \/ end > Len(res.text) THEN [ok |-> FALSE, text |-> res.text]
    ELSE [ok |-> TRUE,
          text |-> SubSeq(res.text, 1, start) \o replacement
                   \o SubSeq(res.text, end + 1, Len(res.text))]

RECURSIVE RedactLoop(_, _, _)
RedactLoop(res, sorted, strategy) ==
    IF sorted = <<>> THEN res
    ELSE RedactLoop(replace_range(res, Head(sorted).start, Head(sorted).end,
                                  Replacement(strategy, Head(sorted))),
                    Tail(sorted), strategy)

\* pii/redactor.rs redact
redact(text, matches, strategy) ==
    IF matches = <<>> THEN [ok |-> TRUE, text |-> text]
    ELSE RedactLoop([ok |-> TRUE, text |-> text], SortByStartReverse(matches, <<>>), strategy)

\* redact(text, &matches, strategy)
RedactCall ==
    /\ ~r_result.run
    /\ LET out == redact(r_text, r_matches, r_strategy)
       IN  r_result' = [run |-> TRUE, ok |-> out.ok, text |-> out.text]
    /\ UNCHANGED <<r_text, r_matches, r_strategy>>
    /\ UNCHANGED notRed

NextRedact == RedactCall

(***************************************************************************)
(* TokenBucket at millisecond resolution: one caller whose try_consume(n)  *)
(* is denied waits for the time it was told and calls again; nobody else   *)
(* consumes from or resets the bucket.  Levels and amounts are in          *)
(* thousandths of a token, the clock is in milliseconds, so that           *)
(* refill_rate tokens per second are refill_rate thousandths per           *)
(* millisecond.                                                            *)
(***************************************************************************)
LevelsPerToken == 4      \* levels and amounts are multiples of 1/LevelsPerToken token
MaxExtraWait == 2        \* the caller oversleeps by up to this many milliseconds

Amounts == {(k * Milli) \div LevelsPerToken : k \in 0..(Capacity * LevelsPerToken)}

RetryStart ==
    /\ y_pc = "first"
    /\ y_tokens = Capacity * Milli
    /\ y_last = 0
    /\ y_now = 0
    /\ y_n = Milli
    /\ y_first = NoResult
    /\ y_second = NoResult

\* refill() with the level in thousandths and the clock in milliseconds
RefillLevelMs(tok, last, t) == Min(tok + (t - last) * RefillRate, Capacity * Milli)

\* try_consume(n) as one call under the lock
TryConsumeMs(tok, last, t, n) ==
    LET lvl == RefillLevelMs(tok, last, t)
    IN  IF Enough(lvl, n)
        THEN [tokens |-> lvl - n,
              result |-> [kind |-> "Allowed", remaining |-> lvl - n]]
        ELSE [tokens |-> lvl,
              result |-> [kind |-> "Limited", reason |-> "Custom",
                          retry_after_ms |-> RetryTimeMs(n - lvl),
                          current_tokens |-> lvl]]

\* the first try_consume(n)
FirstConsume ==
    /\ y_pc = "first"
    /\ LET out == TryConsumeMs(y_tokens, y_last, y_now, y_n)
       IN  /\ y_tokens' = out.tokens
           /\ y_first' = out.result
           /\ y_pc' = IF out.result.kind = "Limited" THEN "wait" ELSE "done"
    /\ y_last' = y_now
    /\ UNCHANGED <<y_now, y_n, y_second>>
    /\ UNCHANGED notRetry

\* the caller sleeps retry_after_ms, or a little longer
WaitRetry ==
    /\ y_pc = "wait"
    /\ \E extra \in 0..MaxExtraWait : y_now' = y_now + y_first.retry_after_ms + extra
    /\ y_pc' = "second"
    /\ UNCHANGED <<y_tokens, y_last, y_n, y_first, y_second>>
    /\ UNCHANGED notRetry

\* try_consume(n) again
SecondConsume ==
    /\ y_pc = "second"
    /\ LET out == TryConsumeMs(y_tokens, y_last, y_now, y_n)
       IN  /\ y_tokens' = out.tokens
           /\ y_second' = out.result
    /\ y_last' = y_now
    /\ y_pc' = "done"
    /\ UNCHANGED <<y_now, y_n, y_first>>
    /\ UNCHANGED notRetry

NextRetry ==
    \/ FirstConsume
    \/ WaitRetry
    \/ SecondConsume

(***************************************************************************)
(* CacheStats::snapshot: the struct literal evaluates its fields in order, *)
(* one relaxed load each for hits, misses, sets, deletes and errors, then  *)
(* hit_rate() and miss_rate(), which load hits and misses again.  Other    *)
(* threads call record_hit and record_miss at any time.                    *)
(***************************************************************************)
SnapshotOrder == <<"hits", "misses", "sets", "deletes", "errors">>

NoSnapshot ==
    [hits |-> 0, misses |-> 0, sets |-> 0, deletes |-> 0, errors |-> 0,
     hit_rate |-> [num |-> 0, den |-> 1], miss_rate |-> [num |-> 0, den |-> 1]]

SnapStart ==
    /\ n_pc = "idle"
    /\ n_stats = [c \in Counters |-> 0]
    /\ n_snap = NoSnapshot
    /\ n_hits = 0

\* snapshot() is called
SnapshotCall ==
    /\ n_pc = "idle"
    /\ n_pc' = "hits"
    /\ UNCHANGED <<n_stats, n_snap, n_hits>>
    /\ UNCHANGED notSnap

\* snapshot: field i is self.<field>.load(Relaxed)
SnapshotLoad(i) ==
    /\ n_pc = SnapshotOrder[i]
    /\ n_snap' = [n_snap EXCEPT ![SnapshotOrder[i]] = n_stats[SnapshotOrder[i]]]
    /\ n_pc' = IF i < Len(SnapshotOrder) THEN SnapshotOrder[i + 1] ELSE "hit_rate_hits"
    /\ UNCHANGED <<n_stats, n_hits>>
    /\ UNCHANGED notSnap

\* hit_rate(), called for the hit_rate or the miss_rate field: load hits
RateLoadHits(field) ==
    /\ n_pc = field \o "_hits"
    /\ n_hits' = n_stats.hits
    /\ n_pc' = field \o "_misses"
    /\ UNCHANGED <<n_stats, n_snap>>
    /\ UNCHANGED notSnap

\* hit_rate(): load misses and return; miss_rate() returns 1 - hit_rate()
RateLoadMisses(field) ==
    /\ n_pc = field \o "_misses"
    /\ LET loaded == [hits |-> n_hits, misses |-> n_stats.misses]
       IN  n_snap' = [n_snap EXCEPT ![field] =
                        IF field = "hit_rate" THEN hit_rate(loaded) ELSE miss_rate(loaded)]
    /\ n_pc' = IF field = "hit_rate" THEN "miss_rate_hits" ELSE "done"
    /\ UNCHANGED <<n_stats, n_hits>>
    /\ UNCHANGED notSnap

\* another thread: record_hit or record_miss
SnapRecord(c) ==
    /\ n_stats.hits + n_stats.misses < MaxCount
    /\ n_stats' = Record(n_stats, c)
    /\ UNCHANGED <<n_pc, n_snap, n_hits>>
    /\ UNCHANGED notSnap

NextSnapshot ==
    \/ SnapshotCall
    \/ \E i \in 1..Len(SnapshotOrder) : SnapshotLoad(i)
    \/ \E field \in {"hit_rate", "miss_rate"} : RateLoadHits(field)
    \/ \E field \in {"hit_rate", "miss_rate"} : RateLoadMisses(field)
    \/ \E c \in {"hits", "misses"} : SnapRecord(c)

(***************************************************************************)
(* process_text, step 1, against the two buckets of one client: the        *)
(* requests of that client are served one after the other, the buckets     *)
(* keep their state from request to request and refill with time.          *)
(***************************************************************************)
MaxRequests == 3     \* requests of the client that are followed

\* the level the script finds in a bucket at time t, before it compares
LevelAt(b, cfg, t) ==
    IF b.exists
    THEN Min(cfg.capacity * cfg.den, b.tokens + Max(0, t - b.last) * cfg.num)
    ELSE cfg.capacity * cfg.den

\* whole tokens a check_rate_limit call that left the bucket as b2 took from b
Taken(b, cfg, t, b2) ==
    IF b2 = b THEN 0 ELSE (LevelAt(b, cfg, t) - b2.tokens) \div cfg.den

NoCount == [reached |-> 0, ip_allowed |-> 0, ip_limited |-> 0, ip_taken |-> 0]
NoTake == [ip |-> 0, user |-> 0]

ChargeStart ==
    /\ q_pc = "idle"
    /\ q_user_id = FALSE
    /\ q_ip = Absent
    /\ q_user = Absent
    /\ q_out = "none"
    /\ q_took = NoTake
    /\ q_count = NoCount

\* the user bucket consulted first
NextCheckUserFirst(stage, uid) ==
    CASE stage = "start" -> IF uid THEN "user" ELSE "ip"
      [] stage = "user" -> "ip"
      [] stage = "ip" -> "admitted"

\* the order of the checks: the IP key, then, `if let Some(ref user_id)`,
\* the user key
NextCheck(stage, uid) ==
    CASE stage = "start" -> "ip"
      [] stage = "ip" -> IF uid THEN "user" ELSE "admitted"
      [] stage = "user" -> "admitted"

\* a validated request arrives at step 1
RateLimitStep(uid) ==
    /\ q_pc = "idle"
    /\ q_count.reached < MaxRequests
    /\ q_user_id' = uid
    /\ q_pc' = NextCheck("start", uid)
    /\ q_out' = "none"
    /\ q_took' = NoTake
    /\ q_count' = [q_count EXCEPT !.reached = @ + 1]
    /\ UNCHANGED <<q_ip, q_user>>
    /\ UNCHANGED notCharge

\* check_rate_limit on the key of dimension dim, and what process_text does
\* with the result
ChargeCheck(dim) ==
    /\ q_pc = dim
    /\ LET cfg == IF dim = "ip" THEN FreeConfig ELSE BasicConfig
           b == IF dim = "ip" THEN q_ip ELSE q_user
       IN  \E o \in CheckRateLimit(b, cfg, 1, wall) :
              LET verdict == LimiterVerdict(o.res)
                  took == Taken(b, cfg, wall, o.bucket)
              IN  /\ q_ip' = IF dim = "ip" THEN o.bucket ELSE q_ip
                  /\ q_user' = IF dim = "user" THEN o.bucket ELSE q_user
                  /\ q_took' = [q_took EXCEPT ![dim] = @ + took]
                  /\ q_count' =
                        IF dim = "ip"
                        THEN [q_count EXCEPT
                                !.ip_taken = @ + took,
                                !.ip_allowed = @ + (IF verdict = "admit" THEN 1 ELSE 0),
                                !.ip_limited = @ + (IF verdict = "limited" THEN 1 ELSE 0)]
                        ELSE q_count
                  /\ IF verdict = "admit"
                     THEN /\ q_pc' = IF NextCheck(dim, q_user_id) = "admitted"
                                     THEN "done" ELSE NextCheck(dim, q_user_id)
                          /\ q_out' = IF NextCheck(dim, q_user_id) = "admitted"
                                      THEN "admitted" ELSE q_out
                     ELSE /\ q_pc' = "done"
                          /\ q_out' = dim \o "_" \o verdict
    /\ UNCHANGED q_user_id
    /\ UNCHANGED notCharge

\* the request leaves step 1: it is answered, or goes on to the cache
\* check and the detectors, which touch no bucket
ChargeReturn ==
    /\ q_pc = "done"
    /\ q_pc' = "idle"
    /\ UNCHANGED <<q_user_id, q_ip, q_user, q_out, q_took, q_count>>
    /\ UNCHANGED notCharge

NextCharge ==
    \/ \E uid \in BOOLEAN : RateLimitStep(uid)
    \/ \E dim \in {"ip", "user"} : ChargeCheck(dim)
    \/ ChargeReturn
    \/ TickWall

NextBucket ==
    \/ \E t \in Threads : Call(t)
    \/ \E t \in Threads : Refill(t)
    \/ \E t \in Threads : Check(t)
    \/ \E t \in Threads : Subtract(t)
    \/ \E t \in Threads : Reset(t)
    \/ Tick

InitBucket ==
    /\ BucketStart /\ StoreStart /\ MultiStart /\ PipeStart /\ InjStart /\ PIIStart /\ RedStart /\ RetryStart /\ SnapStart /\ ChargeStart
    /\ StatsStart /\ ConnStart /\ KeyStart
SpecBucket == InitBucket /\ [][NextBucket]_vars

InitMulti ==
    /\ BucketStart /\ StoreStart /\ MultiStart /\ PipeStart /\ InjStart /\ PIIStart /\ RedStart /\ RetryStart /\ SnapStart /\ ChargeStart
    /\ StatsStart /\ ConnStart /\ KeyStart
SpecMulti == InitMulti /\ [][NextMulti]_vars

InitPipeline ==
    /\ BucketStart /\ StoreStart /\ MultiStart /\ PipeStart /\ InjStart /\ PIIStart /\ RedStart /\ RetryStart /\ SnapStart /\ ChargeStart
    /\ StatsStart /\ ConnStart /\ KeyStart
SpecPipeline == InitPipeline /\ [][NextPipeline]_vars

InitCache ==
    /\ BucketStart /\ StoreStart /\ MultiStart /\ PipeStart /\ InjStart /\ PIIStart /\ RedStart /\ RetryStart /\ SnapStart /\ ChargeStart
    /\ StatsStart /\ ConnStart /\ KeyStart

SpecCache == InitCache /\ [][NextCache]_vars

InitConnect ==
    /\ BucketStart /\ StoreStart /\ MultiStart /\ PipeStart /\ InjStart /\ PIIStart /\ RedStart /\ RetryStart /\ SnapStart /\ ChargeStart
    /\ StatsStart /\ ConnStart /\ KeyStart

SpecConnect == InitConnect /\ [][NextConnect]_vars

\* every pool.get() is answered and every sleep ends
FairSpecConnect ==
    /\ SpecConnect
    /\ \A c \in Callers : WF_vars(PoolGet(c)) /\ WF_vars(Wake(c))

\* the namespace and the data of the calls are any of the bounded inputs
InitKey ==
    /\ BucketStart /\ StoreStart /\ MultiStart /\ PipeStart /\ InjStart /\ PIIStart /\ RedStart /\ RetryStart /\ SnapStart /\ ChargeStart
    /\ StatsStart /\ ConnStart
    /\ k_namespace \in KeyNamespaces
    /\ k_data \in DataStrings
    /\ k_strong = NoCalls
    /\ k_fast = NoCalls

SpecKey == InitKey /\ [][NextKey]_vars

\* the detector has any configuration and is given any of the bounded texts
InitInjection ==
    /\ BucketStart /\ StoreStart /\ MultiStart /\ PipeStart /\ PIIStart /\ RedStart /\ RetryStart /\ SnapStart /\ ChargeStart
    /\ StatsStart /\ ConnStart /\ KeyStart
    /\ j_text \in InjTexts
    /\ j_config \in InjConfigs
    /\ j_matches = NotDetected

SpecInjection == InitInjection /\ [][NextInjection]_vars

\* the detector has any configuration and is given any of the bounded texts
InitPII ==
    /\ BucketStart /\ StoreStart /\ MultiStart /\ PipeStart /\ InjStart /\ RedStart /\ RetryStart /\ SnapStart /\ ChargeStart
    /\ StatsStart /\ ConnStart /\ KeyStart
    /\ i_text \in PIITexts
    /\ i_config \in PIIConfigs
    /\ i_matches = NotDetected

SpecPII == InitPII /\ [][NextPII]_vars

\* redact is given any of the bounded texts, match lists and strategies
InitRedact ==
    /\ BucketStart /\ StoreStart /\ MultiStart /\ PipeStart /\ InjStart /\ PIIStart /\ RetryStart /\ SnapStart /\ ChargeStart
    /\ StatsStart /\ ConnStart /\ KeyStart
    /\ r_text \in RedactTexts
    /\ r_matches \in MatchLists(r_text)
    /\ r_strategy \in Strategies
    /\ r_result = NotRedacted

SpecRedact == InitRedact /\ [][NextRedact]_vars

\* the bucket holds any level, was last refilled up to a second ago, and is
\* asked for any amount up to its capacity
InitRetry ==
    /\ BucketStart /\ StoreStart /\ MultiStart /\ PipeStart /\ InjStart /\ PIIStart /\ RedStart /\ SnapStart /\ ChargeStart
    /\ StatsStart /\ ConnStart /\ KeyStart
    /\ y_pc = "first"
    /\ y_tokens \in Amounts
    /\ y_last = 0
    /\ y_now \in {0, Milli \div LevelsPerToken, Milli}
    /\ y_n \in Amounts
    /\ y_first = NoResult
    /\ y_second = NoResult

SpecRetry == InitRetry /\ [][NextRetry]_vars

InitSnapshot ==
    /\ BucketStart /\ StoreStart /\ MultiStart /\ PipeStart /\ InjStart /\ PIIStart /\ RedStart /\ RetryStart /\ ChargeStart
    /\ StatsStart /\ ConnStart /\ KeyStart
    /\ SnapStart

SpecSnapshot == InitSnapshot /\ [][NextSnapshot]_vars

\* the two keys of the client are in any of the states earlier requests can
\* have left them in
InitCharge ==
    /\ BucketStart /\ StoreStart /\ MultiStart /\ PipeStart /\ InjStart /\ PIIStart /\ RedStart /\ RetryStart /\ SnapStart
    /\ StatsStart /\ ConnStart /\ KeyStart
    /\ q_pc = "idle"
    /\ q_user_id = FALSE
    /\ q_ip \in KeyStates(FreeConfig)
    /\ q_user \in KeyStates(BasicConfig)
    /\ q_out = "none"
    /\ q_took = NoTake
    /\ q_count = NoCount

SpecCharge == InitCharge /\ [][NextCharge]_vars

(***************************************************************************)
(* Claims about the local token bucket.                                    *)
(***************************************************************************)

\* what a call reported about the bucket level
Reported(r) ==
    CASE r.kind = "Allowed" -> {r.remaining}
      [] r.kind = "Limited" -> {r.current_tokens}
      [] r.kind = "Tokens"  -> {r.value}
      [] OTHER -> {}

\* C1: in every reachable state of a TokenBucket of capacity C the stored level
\* satisfies 0 <= tokens <= C, and so does every level a call reported as
\* remaining / current_tokens.
C1_LevelWithinCapacity ==
    /\ 0 <= tokens /\ tokens <= Capacity
    /\ \A t \in Threads : \A v \in Reported(result[t]) : 0 <= v /\ v <= Capacity

\* a drained bucket has refilled to capacity after time passed, and a call
\* was denied on the way
C1_Witness ==
    /\ now > 0 /\ last_refill = now /\ tokens = Capacity
    /\ \E t \in Threads : result[t].kind = "Limited" /\ result[t].current_tokens = 0
    /\ \E t \in Threads : result[t].kind = "Tokens" /\ result[t].value = Capacity

\* C2: concurrent calls on one bucket are serialized by the lock: at most one
\* thread is between its refill and its subtraction, every call returns what
\* the same calls return when run one after the other in lock order, and the
\* level left behind is the level of that sequential run.
C2_Serialized ==
    /\ Cardinality({t \in Threads : pc[t] # "idle"}) <= 1
    /\ \A t \in Threads :
          (pc[t] = "idle" /\ result[t] # NoResult) => result[t] = expect[t]
    /\ (lock = 0 => tokens = seq_tokens /\ last_refill = seq_last)

\* with no time elapsed one thread was granted tokens and another, calling
\* after it, was denied
C2_Witness ==
    /\ now = 0
    /\ \E t1, t2 \in Threads :
          /\ t1 # t2
          /\ result[t1].kind = "Allowed" /\ arg[t1] > 0
          /\ result[t2].kind = "Limited"

\* C3: from a full bucket, K successive try_consume(1) calls with no time
\* elapsing are allowed exactly min(K, C) times: call i <= C is allowed and
\* leaves C - i (strictly decreasing), every later call is limited.
C3_BurstAllowsMinKC ==
    burst.valid =>
        /\ \A i \in 1..Len(burst.log) :
              IF i <= Capacity
              THEN /\ burst.log[i].kind = "Allowed"
                   /\ burst.log[i].remaining = Capacity - i
                   /\ (i > 1 => burst.log[i].remaining < burst.log[i-1].remaining)
              ELSE burst.log[i].kind = "Limited"
        /\ Cardinality({i \in 1..Len(burst.log) : burst.log[i].kind = "Allowed"})
              = Min(Len(burst.log), Capacity)

\* a burst went past the capacity: K = C + 1 calls were made
C3_Witness ==
    /\ burst.valid
    /\ Len(burst.log) = Capacity + 1
    /\ burst.log[Capacity + 1].kind = "Limited"

(***************************************************************************)
(* Claims about MultiDimensionalRateLimiter::check_all.                    *)
(***************************************************************************)

\* the order in which check_all is to consult the dimensions
DimOrder(u) ==
    IF u THEN <<"user", "ip", "endpoint", "global">>
    ELSE <<"ip", "endpoint", "global">>

\* the reason tag of each dimension
DimReason ==
    [user |-> "UserQuota", ip |-> "IPQuota",
     endpoint |-> "EndpointQuota", global |-> "GlobalQuota"]

\* C4: check_all consults user (only with a user_id), ip, endpoint, global in
\* that order; the first bucket that denies ends the call with LIMITED and
\* that dimension's reason, no later bucket is consulted or charged; ALLOWED
\* is returned only when every consulted bucket allowed.
C4_FirstDenyShortCircuits ==
    LET ord == DimOrder(m_user)
        n == Len(m_trace)
    IN  /\ n <= Len(ord)
        /\ \A i \in 1..n : m_trace[i].dim = ord[i]
        /\ \A i \in 1..(n - 1) : m_trace[i].kind = "Allowed"
        /\ (m_pc \in Dims =>
              /\ n < Len(ord) /\ m_pc = ord[n + 1]
              /\ \A i \in 1..n : m_trace[i].kind = "Allowed")
        /\ (m_pc = "done" /\ m_trace[n].kind = "Limited" =>
              /\ m_result.kind = "Limited"
              /\ m_result.reason = DimReason[m_trace[n].dim])
        /\ (m_pc = "done" /\ m_result.kind = "Limited" => m_trace[n].kind = "Limited")
        /\ (m_pc = "done" /\ m_result.kind = "Allowed" =>
              /\ n = Len(ord)
              /\ \A i \in 1..n : m_trace[i].kind = "Allowed")

\* user and ip allowed, endpoint denied: global was never consulted
C4_Witness ==
    /\ m_pc = "done" /\ m_user
    /\ Len(m_trace) = 3
    /\ m_result.kind = "Limited" /\ m_result.reason = "EndpointQuota"
    /\ ~buckets["global"].exists

(***************************************************************************)
(* Claims about process_text.                                              *)
(***************************************************************************)

HasStep(name) == \E i \in 1..Len(p_trace) : p_trace[i].step = name

HasStepOut(name, out) ==
    \E i \in 1..Len(p_trace) : p_trace[i] = Step(name, out)

RateLimitSteps == {"rate_limit_ip", "rate_limit_user"}

\* the place of each step in the order the pipeline is to follow
StepRank(name) ==
    CASE name = "validate" -> 0
      [] name = "rate_limit_ip" -> 1
      [] name = "rate_limit_user" -> 2
      [] name = "cache_get" -> 3
      [] name = "detect_pii" -> 4
      [] name = "detect_injection" -> 5
      [] name = "cache_set" -> 6

\* C5: within one request every rate-limit check precedes the cache lookup,
\* the lookup precedes any detection and detection precedes the cache store;
\* no step is taken after a later one, and none is taken twice.
C5_StepsInOrder ==
    \A i, j \in 1..Len(p_trace) :
        i < j => StepRank(p_trace[i].step) < StepRank(p_trace[j].step)

\* a request that took every step
C5_Witness ==
    /\ p_pc = "done"
    /\ \A name \in {"rate_limit_ip", "rate_limit_user", "cache_get", "detect_pii",
                    "detect_injection", "cache_set"} : HasStep(name)

\* a rate-limit check of the request ended with an error
LimiterErr ==
    \E i \in 1..Len(p_trace) :
        p_trace[i].step \in RateLimitSteps /\ p_trace[i].out = "Err"

\* C6: a rate-limit check that fails with an error ends the request with an
\* error: the failed check is its last step, so no cache lookup, detection
\* or cache store follows, and the reply is no success or blocked response.
C6_LimiterErrorIsFatal ==
    LimiterErr =>
        /\ p_pc = "done"
        /\ p_trace[Len(p_trace)].out = "Err"
        /\ p_trace[Len(p_trace)].step \in RateLimitSteps
        /\ ~HasStep("cache_get") /\ ~HasStep("cache_set")
        /\ ~HasStep("detect_pii") /\ ~HasStep("detect_injection")
        /\ p_reply.code # 200
        /\ p_reply.body.schema = "ErrorResponse"

\* the IP bucket admitted, the check of the user bucket failed
C6_Witness ==
    /\ p_pc = "done"
    /\ HasStepOut("rate_limit_ip", "Allowed")
    /\ HasStepOut("rate_limit_user", "Err")

\* C7: a key-value-store error raised by the rate limiter is reported to
\* the client with a 5xx status code.
C7_LimiterErrorIs5xx ==
    LimiterErr /\ p_pc = "done" => p_reply.code \in 500..599

\* a rate-limit check of the request returned LIMITED
LimiterLimited ==
    \E i \in 1..Len(p_trace) :
        p_trace[i].step \in RateLimitSteps /\ p_trace[i].out = "Limited"

\* C8: LIMITED from the IP bucket or the user bucket gives a response with
\* status rate_limited, no matches, both detected flags and cache_hit false,
\* and the request neither reads nor writes the cache nor runs a detector.
C8_LimitedIsRateLimited ==
    LimiterLimited =>
        /\ p_pc = "done"
        /\ p_reply.body.schema = "ProcessResponse"
        /\ p_reply.body.status = "rate_limited"
        /\ p_reply.body.pii_matches = <<>>
        /\ p_reply.body.injection_matches = <<>>
        /\ ~p_reply.body.pii_detected
        /\ ~p_reply.body.injection_detected
        /\ ~p_reply.body.cache_hit
        /\ ~HasStep("cache_get") /\ ~HasStep("cache_set")
        /\ ~HasStep("detect_pii") /\ ~HasStep("detect_injection")

\* every rate-limit check of the request returned ALLOWED
Admitted ==
    /\ HasStepOut("rate_limit_ip", "Allowed")
    /\ \A i \in 1..Len(p_trace) :
           p_trace[i].step \in RateLimitSteps => p_trace[i].out = "Allowed"

\* the request ended by returning the entry its cache lookup found
ServedFromCache ==
    /\ p_pc = "done"
    /\ p_trace # <<>>
    /\ p_trace[Len(p_trace)] = Step("cache_get", "Some")

HasCritical(matches) ==
    \E i \in 1..Len(matches) : matches[i].severity = "Critical"

SeenSameText ==
    /\ p_seen.present
    /\ p_seen.writer.by = "process_text"
    /\ p_seen.writer.text = request.text

\* the response repeats the one of the request that stored the entry
RepeatsSeen ==
    /\ p_reply.code = 200
    /\ p_reply.body.status = p_seen.value.status
    /\ p_reply.body.pii_matches = p_seen.value.pii_matches
    /\ p_reply.body.injection_matches = p_seen.value.injection_matches
    /\ p_reply.body.cache_hit

Slice(text, start, end) == SubSeq(text.chars, start + 1, end)

MatchInText(m, text) ==
    /\ m.start < m.end
    /\ m.end <= Len(text.chars)
    /\ m.matched_text = Slice(text, m.start, m.end)

\* C11: every PII and injection match of every process_text response,
\* computed or returned from a cache entry, has start < end <= length of the
\* request's text and matched_text equal to that text sliced at [start, end).
C11_MatchesSliceText ==
    p_pc = "done" /\ p_reply.code = 200 =>
        /\ \A i \in 1..Len(p_reply.body.pii_matches) :
               MatchInText(p_reply.body.pii_matches[i], request.text)
        /\ \A i \in 1..Len(p_reply.body.injection_matches) :
               MatchInText(p_reply.body.injection_matches[i], request.text)

HasFinding(r) == r.pii_matches # <<>> \/ r.injection_matches # <<>>

\* C12: a step of process_text changes the cache only in its cache store and
\* only for a request with use_cache; the entry it writes expires after 60 s
\* (Short) if the response has a PII or injection match and after 300 s
\* (Medium) if it has none, never Long, Persistent or Custom.
C12_TTLByFindings ==
    [][ p_pc' # p_pc /\ cache' # cache =>
          /\ p_pc = "store"
          /\ request.use_cache
          /\ \A k \in CacheKeys :
                cache'[k] # cache[k] =>
                   /\ cache'[k].present
                   /\ cache'[k].ttl = (IF HasFinding(response) THEN "Short" ELSE "Medium")
                   /\ cache'[k].expiry = [some |-> TRUE,
                                          secs |-> IF HasFinding(response) THEN 60 ELSE 300]
      ]_vars

\* the request in flight has stored a response with findings under Short
C12_Witness ==
    /\ p_pc = "done"
    /\ HasStepOut("cache_set", "Ok")
    /\ HasFinding(response)
    /\ cache[cache_key.key].present
    /\ cache[cache_key.key].value = Serialize(response)
    /\ cache[cache_key.key].ttl = "Short"

\* C13: when the cache write of process_text fails, the request completes
\* with code 200 and with the status, the matches and the flags that
\* detection computed for it.
C13_StoreFailureSwallowed ==
    p_pc = "done" /\ HasStepOut("cache_set", "Err") =>
        /\ response = DetectResponse(request, cache_hit)
        /\ p_reply.code = 200
        /\ p_reply.body.schema = "ProcessResponse"
        /\ p_reply.body.status = ProcessStatusJson(response.status)
        /\ p_reply.body.pii_matches = response.pii_matches
        /\ p_reply.body.injection_matches = response.injection_matches
        /\ p_reply.body.pii_detected = response.pii_detected
        /\ p_reply.body.injection_detected = response.injection_detected

\* a blocked response with a PII match whose cache write failed
C13_Witness ==
    /\ p_pc = "done" /\ HasStepOut("cache_set", "Err")
    /\ p_reply.code = 200
    /\ p_reply.body.status = "blocked"
    /\ p_reply.body.pii_matches # <<>>

\* the text of the request in flight fails the input validation
InvalidText(text) == text.len = 0 \/ text.len > MaxTextLen

\* C14: a request whose text is empty or longer than 100,000 ends at once
\* with a 400 validation error: the validation is its only step, so it makes
\* no rate-limit check, no cache read or write and runs no detector, and it
\* never derives a cache key.
C14_InvalidTextRejectedFirst ==
    /\ (p_pc # "idle" /\ InvalidText(request.text) =>
          /\ p_pc = "done"
          /\ p_trace = <<Step("validate", "Err")>>
          /\ p_reply.code = 400
          /\ p_reply.body.schema = "ErrorResponse")
    /\ (p_pc # "idle" /\ cache_key.ok => ~InvalidText(request.text))

\* a text of 100,001 bytes was rejected
C14_Witness ==
    /\ p_pc = "done"
    /\ request.text.len = MaxTextLen + 1
    /\ p_reply.code = 400
    /\ \E k \in CacheKeys : cache[k].present


\* C15: with cache operations and record_* calls of other tasks interleaved in
\* any order, every counter equals the number of record_* calls made on it
\* since it was last zeroed (no update is lost), and a counter goes down only
\* in the step of reset() that stores zero into it.
C15_CountersMonotone ==
    /\ [](\A c \in Counters : stats[c] = calls[c])
    /\ [][\A i \in 1..Len(ResetOrder) :
             stats'[ResetOrder[i]] < stats[ResetOrder[i]]
                => /\ c_op.name = "reset"
                   /\ c_pc = ResetPc[i]
                   /\ stats'[ResetOrder[i]] = 0]_vars

\* reset() has zeroed hits and misses and is about to zero a non-zero sets,
\* while another task has already recorded a hit again
C15_Witness ==
    /\ c_op.name = "reset"
    /\ c_pc = "reset_sets"
    /\ stats.sets = 1
    /\ stats.hits = 1


\* C16: in every reachable state of the statistics, total_operations() is
\* hits + misses, hit_rate() is the fraction hits / (hits + misses) when that
\* sum is positive and 0 when it is zero, and hit_rate() lies between 0 and 1.
C16_HitRate ==
    LET sum == stats.hits + stats.misses
        rate == hit_rate(stats)
    IN  /\ total_operations(stats) = sum
        /\ rate.den > 0
        /\ IF sum > 0
           THEN rate.num * sum = stats.hits * rate.den
           ELSE rate.num = 0
        /\ 0 <= rate.num
        /\ rate.num <= rate.den

\* a hit and a miss have been recorded: the rate is a proper fraction
C16_Witness ==
    /\ stats.hits = 1
    /\ stats.misses = 1
    /\ hit_rate(stats) = [num |-> 1, den |-> 2]


RejectedPattern(p) ==
    \/ p = <<>>
    \/ \A i \in 1..Len(p) : p[i] # ":"
    \/ p = <<"*">>
    \/ p = <<"*", ":", "*">>

\* C17: invalidate_pattern called with a pattern that is empty, has no ':', or
\* is '*' or '*:*' returns InvalidPattern in its first step, which changes
\* neither the store nor a counter; no KEYS or DEL command is ever sent for it.
C17_InvalidPatternNoEffect ==
    /\ [](c_op.name = "invalidate_pattern" /\ RejectedPattern(c_op.key)
            => /\ c_pc = "done"
               /\ c_result.kind = "InvalidPattern"
               /\ c_reply = NoCacheReply
               /\ c_keys = {}
               /\ c_removed = {})
    /\ [][c_op'.name = "invalidate_pattern" /\ c_op' # c_op /\ RejectedPattern(c_op'.key)
            => /\ kv' = kv
               /\ stats' = stats]_vars

\* the call with '*:*' has returned while the store holds keys
C17_Witness ==
    /\ c_op = [name |-> "invalidate_pattern", key |-> <<"*", ":", "*">>]
    /\ c_result.kind = "InvalidPattern"
    /\ Present(kv) = KvKeys


\* C18: when invalidate_pattern returns Ok(n), n is the number of keys this
\* call removed from the store, also when other clients or expiry act on the
\* store between the call's KEYS and its DEL.
C18_CountIsRemoved ==
    c_op.name = "invalidate_pattern" /\ c_pc = "done" /\ c_result.kind = "Ok"
        => c_result.value = Cardinality(c_removed)


Blank(data) == \A i \in 1..Len(data) : data[i] = " "

\* C19: for every namespace and data, generate_cache_key gives the same
\* result for the data and for the data trimmed and lowercased, and the same
\* result each time it is called; the result is a KeyGeneration error whenever
\* the data is empty or only white space or the namespace is empty; and all of
\* this holds for generate_cache_key_fast too.
C19_KeyOfNormalized ==
    LET strong == k_strong.direct \cup k_strong.normal
        fast == k_fast.direct \cup k_fast.normal
    IN  /\ Cardinality(strong) <= 1
        /\ Cardinality(fast) <= 1
        /\ Blank(k_data) \/ k_namespace = ""
              => \A r \in strong \cup fast : r = NoKey

\* both functions have been called with "<space>I" and with its normal form "i"
C19_Witness ==
    /\ k_namespace = Namespace
    /\ k_data = <<" ", "I">>
    /\ k_strong.direct = k_strong.normal
    /\ k_strong.direct = {[ok |-> TRUE, key |-> <<Namespace, <<"i">>>>]}
    /\ k_fast.direct = k_fast.normal
    /\ k_fast.direct = {[ok |-> TRUE, key |-> <<Namespace, <<"xxh3", <<"i">>>>>>]}


ErrCount(c) == Cardinality({i \in 1..Len(g_attempts[c]) : g_attempts[c][i] = "err"})

IsPrefix(s, t) == Len(s) <= Len(t) /\ \A i \in 1..Len(s) : s[i] = t[i]

\* C20: every call of get_connection comes to an end whatever the pool
\* answers; it asks the pool at most 3 times, returns the first connection
\* the pool yields, waits 100 ms after the first failure and 200 ms after the
\* second, each wait being min(2 x the one before, 5000 ms), and returns the
\* error after the third failure without another wait.
C20_GetConnectionTerminates ==
    /\ [](\A c \in Callers :
            /\ Len(g_attempts[c]) <= 3
            /\ \A i \in 1..Len(g_attempts[c]) :
                  g_attempts[c][i] = "ok"
                     => i = Len(g_attempts[c]) /\ g_pc[c] = "done" /\ g_result[c] = "Ok"
            /\ g_result[c] = "Ok" => g_attempts[c][Len(g_attempts[c])] = "ok"
            /\ g_result[c] = "Err"
                  => g_attempts[c] = <<"err", "err", "err">> /\ g_waited[c] = <<100, 200>>
            /\ IsPrefix(g_waited[c], <<100, 200>>)
            /\ \A i \in 1..Len(g_waited[c]) : g_waited[c][i] <= 5000
            /\ \A i \in 2..Len(g_waited[c]) :
                  g_waited[c][i] = Min(2 * g_waited[c][i - 1], 5000)
            /\ g_pc[c] = "try" => Len(g_waited[c]) = ErrCount(c)
            /\ g_pc[c] = "sleep" => Len(g_waited[c]) = ErrCount(c) - 1)
    /\ \A c \in Callers : (g_pc[c] \in {"try", "sleep"}) ~> (g_pc[c] = "done")

\* one caller has given up after three failures and two waits while another
\* got its connection at the second attempt
C20_Witness ==
    \E c, d \in Callers :
        /\ g_pc[c] = "done" /\ g_result[c] = "Err"
        /\ g_attempts[c] = <<"err", "err", "err">>
        /\ g_waited[c] = <<100, 200>>
        /\ g_pc[d] = "done" /\ g_result[d] = "Ok"
        /\ g_attempts[d] = <<"err", "ok">>
        /\ g_waited[d] = <<100>>


\* the context detect works with
ContextOf(config, text) ==
    IF config.enable_context_analysis THEN analyze_context(text) ELSE NoContext

\* the pattern hits of a text whose adjusted severity reaches the threshold
KeptHits(config, text) ==
    LET ps == get_patterns(config.detection_mode)
    IN  {h \in (1..Len(ps)) \X (1..Len(text.chars)) :
            /\ text.chars[h[2]] \in ps[h[1]].chars
            /\ SeverityRank(adjust_severity(ps[h[1]].severity, ContextOf(config, text)))
                  >= SeverityRank(config.severity_threshold)}

\* C21: every match detect returns, for any text and configuration, has an
\* adjusted severity of at least the configured threshold; the hits below the
\* threshold are not returned, and the multi-match boost of the confidence is
\* computed from the number of hits that reach the threshold.
C21_MatchesReachThreshold ==
    j_matches.run =>
        LET ms == j_matches.matches
            kept == Cardinality(KeptHits(j_config, j_text))
            boost == IF kept > 1 THEN Min(5 * kept, 15) ELSE 0
        IN  /\ Len(ms) = kept
            /\ \A i \in 1..Len(ms) :
                  /\ SeverityRank(ms[i].severity) >= SeverityRank(j_config.severity_threshold)
                  /\ ms[i].confidence =
                        Min(100, InjectionConfidence(ms[i].injection_type,
                                                     EntropyHigh(j_config, j_text),
                                                     ContextOf(j_config, j_text)) + boost)

\* a Critical and a High hit in an academic text under threshold High: the
\* High hit is adjusted to Medium and dropped, the other is returned unboosted
C21_Witness ==
    /\ j_matches.run
    /\ j_text.chars = <<"i", "h", "a">>
    /\ j_config.detection_mode = "Standard"
    /\ j_config.enable_context_analysis
    /\ j_config.severity_threshold = "High"
    /\ Len(j_matches.matches) = 1
    /\ j_matches.matches[1].severity = "High"
    /\ j_matches.matches[1].injection_type = "IgnorePreviousInstructions"


\* the tokens that pass the validator of their category
PassesValidator(matched) == matched \in {<<"s">>, <<"c">>, <<"e">>, <<"p">>}

\* C22: with enable_validation on, detect returns no credit card, SSN, email
\* or phone match whose matched text fails the validator of its category.
C22_NoInvalidMatch ==
    i_matches.run /\ i_config.enable_validation =>
        \A k \in 1..Len(i_matches.matches) :
            i_matches.matches[k].pii_type \in {"CreditCard", "SSN", "Email", "Phone"}
                => PassesValidator(i_matches.matches[k].matched_text)


\* C23: for every strategy and every list of matches whose ranges lie inside
\* the text, overlapping ones included, redact returns without a range
\* failure, and with Mask the output is as long as the input.
C23_RedactCompletes ==
    r_result.run =>
        /\ r_result.ok
        /\ r_strategy = "Mask" => Len(r_result.text) = Len(r_text)


\* the context flags a text sets
SetsQuoted(text) == \E a, b \in 1..Len(text.chars) :
                        a < b /\ text.chars[a] = "q" /\ text.chars[b] = "q"
SetsNegation(text) == \E a \in 1..Len(text.chars) : text.chars[a] = "n"
SetsAcademic(text) == \E a \in 1..Len(text.chars) : text.chars[a] = "a"
SetsTesting(text) == \E a \in 1..Len(text.chars) : text.chars[a] = "t"

C25_RetryHintSuffices ==
    /\ y_first.kind = "Limited"
          => y_first.retry_after_ms * RefillRate >= y_n - y_first.current_tokens
    /\ y_pc = "done" /\ y_first.kind = "Limited" => y_second.kind = "Allowed"

\* a caller denied with a deficit of a quarter token was allowed after waiting
\* exactly the time it was told
C25_Witness ==
    /\ y_pc = "done"
    /\ y_first.kind = "Limited"
    /\ y_n - y_first.current_tokens = Milli \div LevelsPerToken
    /\ y_now = y_last
    /\ y_second.kind = "Allowed"
    /\ y_second.remaining > 0


\* the step in which try_consume of thread t returns Limited
DeniedReturn(t) == pc[t] = "check" /\ pc'[t] = "idle"

\* the lazy refill of a try_consume of thread t
LazyRefill(t) == pc[t] = "refill" /\ op[t] = "try_consume" /\ pc'[t] = "check"

\* C30: a try_consume(n) that returns Limited subtracts nothing: its return
\* leaves the level and the refill time as the lazy refill set them, reports
\* that level as current_tokens, and that level is below n; the lazy refill
\* itself changes the level the bucket has at no later time, so denied calls
\* neither lower the level nor postpone the moment n tokens are available.
C30_DeniedSubtractsNothing ==
    [][\A t \in Threads :
          /\ DeniedReturn(t) =>
                /\ tokens' = tokens
                /\ last_refill' = last_refill
                /\ result'[t].kind = "Limited"
                /\ result'[t].current_tokens = tokens'
                /\ tokens' < arg[t]
          /\ LazyRefill(t) =>
                \A later \in now..(MaxTime + Capacity) :
                    RefillLevel(tokens', last_refill', later)
                        = RefillLevel(tokens, last_refill, later)]_vars

\* a request for two tokens was denied at a level of one token, which the
\* bucket still holds
C30_Witness ==
    \E t \in Threads :
        /\ pc[t] = "idle"
        /\ result[t].kind = "Limited"
        /\ arg[t] = 2
        /\ result[t].current_tokens = 1
        /\ tokens = 1


\* the fractions a and b are the same number
SameRate(a, b) == a.num * b.den = b.num * a.den

\* C26: a finished snapshot, taken while other threads record hits and
\* misses, carries the hit_rate computed from its own hits and misses fields
\* (0 when both are zero) and a miss_rate of 1 - that hit_rate.
C26_SnapshotConsistent ==
    n_pc = "done" =>
        /\ SameRate(n_snap.hit_rate, hit_rate(n_snap))
        /\ SameRate(n_snap.miss_rate, miss_rate(n_snap))


\* what the detectors yield for the request in flight, as the client sees it
OwnFindings == Serialize(DetectResponse(request, FALSE))

\* the entry under the request's key at its lookup, if any, was stored by
\* process_text for the very same text
SeenOnlySameText == p_seen.present => SeenSameText

\* C27: a request admitted by the rate limiter with check_injection = true
\* gets the injection_matches and the blocked/success status the injection
\* engine yields for its text, and with check_pii = true the pii_matches of
\* the PII engine, whatever requests came before; stated here for the
\* requests whose key held no entry or an entry stored for the same text, so
\* that an earlier request with a check switched off is the only difference.
C27_FindingsOfOwnChecks ==
    p_pc = "done" /\ Admitted /\ p_reply.code = 200 /\ SeenOnlySameText =>
        /\ request.check_injection =>
              /\ p_reply.body.injection_matches = OwnFindings.injection_matches
              /\ p_reply.body.status = OwnFindings.status
        /\ request.check_pii =>
              p_reply.body.pii_matches = OwnFindings.pii_matches


\* C28: every process_text response carries cache_hit = true exactly when
\* its findings were taken from a cache entry instead of being computed by
\* the detectors in that request, also when the entry found could not be
\* deserialized and detection ran; and no entry the pipeline has written
\* carries cache_hit = true, its findings having been computed.
C28_CacheHitIffFromCache ==
    /\ p_pc = "done" /\ p_reply.code = 200 =>
          (p_reply.body.cache_hit <=> ServedFromCache)
    /\ \A k \in CacheKeys :
          cache[k].present /\ cache[k].writer.by = "process_text" =>
              ~cache[k].value.cache_hit


\* C29 as stated: the IP bucket has been charged once for every request that
\* reached the limiter and was not denied by the IP bucket itself.
C29_ChargedOncePerUndenied ==
    q_pc \in {"idle", "done"} =>
        q_count.ip_taken = q_count.reached - q_count.ip_limited

\* C29, amended: process_text charges the IP bucket before it consults the
\* user bucket: a request denied by the IP bucket takes no token from either
\* bucket, the user bucket is only consulted by a request that has taken
\* exactly one IP token, a request denied by the user bucket keeps that IP
\* token taken and takes no user token, and the IP bucket has been charged
\* once for every request its check allowed, never for a request it denied
\* and at most once for a request whose IP check failed.
C29_IpChargedBeforeUser ==
    /\ q_out = "ip_limited" => q_took = NoTake
    /\ q_pc = "user" => q_took = [ip |-> 1, user |-> 0]
    /\ q_out = "user_limited" => q_took = [ip |-> 1, user |-> 0]
    /\ q_took.user > 0 => q_took.ip = 1
    /\ q_count.ip_taken >= q_count.ip_allowed
    /\ q_count.ip_taken <= q_count.reached - q_count.ip_limited

\* a request with a user_id took the last token of the IP bucket and was
\* then denied by the user bucket; the IP bucket stays empty
C29_Witness ==
    /\ q_pc = "done"
    /\ q_out = "user_limited"
    /\ q_took = [ip |-> 1, user |-> 0]
    /\ q_ip.exists /\ q_ip.tokens = 0
    /\ q_count.ip_taken = q_count.ip_allowed

=============================================================================
